---- MODULE Spec2Model ----
(***************************************************************************)
(* A model of the typed HTTP request multiplexer code.soquee.net/mux:      *)
(* the route tree, registration (Handle), matching and dispatch            *)
(* (ServeMux.handler, node.match) and the helpers they use.                *)
(*                                                                         *)
(* Go strings are modelled as sequences of one-character strings, so that  *)
(* nextPart, parseParam, cleanPath and the strconv parsers are computed    *)
(* character by character as the code computes them.                       *)
(***************************************************************************)
EXTENDS Integers, Sequences, FiniteSets, TLC

VARIABLES
    mux,        \* the *ServeMux: node (route tree), notFound, methodNotAllowed, options
    nCalls,     \* number of Handle options applied so far
    registered, \* history: the (method, pattern, handler) triples whose Handle returned
    panics,     \* history: the number of Handle calls that panicked
    last        \* the last operation and what it returned

vars == <<mux, nCalls, registered, panics, last>>

----------------------------------------------------------------------------
(* Bounds of the model.                                                    *)

\* The number of Handle options applied to the mux.
MaxCalls == 2

\* The number of calls a handler of the caller makes on its ResponseWriter.
MaxWrites == 3

----------------------------------------------------------------------------
(* Strings.                                                                *)

\* strings.IndexByte(s, c): the 0-based index of the first c in s, or -1.
IndexByte(s, c) ==
    LET hits == {i \in 1..Len(s) : s[i] = c}
    IN  IF hits = {} THEN -1 ELSE (CHOOSE i \in hits : \A j \in hits : i <= j) - 1

\* The Go slice expression s[lo:hi] (0-based, hi exclusive).
Slice(s, lo, hi) == SubSeq(s, lo + 1, hi)

\* strings.TrimPrefix(s, "/")
TrimSlash(s) == IF Len(s) > 0 /\ s[1] = "/" THEN Tail(s) ELSE s

\* strings.HasSuffix(s, "/")
HasTrailingSlash(s) == Len(s) > 0 /\ s[Len(s)] = "/"

typStatic == <<"s","t","a","t","i","c">>
typWild   == <<"p","a","t","h">>
typString == <<"s","t","r","i","n","g">>
typUint   == <<"u","i","n","t">>
typInt    == <<"i","n","t">>
typFloat  == <<"f","l","o","a","t">>

\* nextPart splits a path at its first slash.
nextPart(path) ==
    LET idx == IndexByte(path, "/")
    IN  IF idx = -1
        THEN [part |-> path, remain |-> <<>>]
        ELSE [part |-> Slice(path, 0, idx), remain |-> Slice(path, idx + 1, Len(path))]

\* parseParam taking a single token that is no type keyword for the name of
\* a string variable.
parseParamLenient(pattern) ==
    IF Len(pattern) = 0
    THEN [name |-> <<>>, typ |-> <<>>, panic |-> "index out of range"]
    ELSE IF pattern[1] # "{" \/ pattern[Len(pattern)] # "}"
    THEN [name |-> pattern, typ |-> typStatic, panic |-> "none"]
    ELSE IF Len(pattern) = 2
    THEN [name |-> <<>>, typ |-> typString, panic |-> "none"]
    ELSE LET sp   == IndexByte(pattern, " ")
             idx  == IF sp = -1 THEN 0 ELSE sp
             typ  == Slice(pattern, idx + 1, Len(pattern) - 1)
             idx2 == IF idx = 0 THEN 1 ELSE idx
         IN  IF typ \in {typInt, typUint, typFloat, typString, typWild}
             THEN [name |-> Slice(pattern, 1, idx2), typ |-> typ, panic |-> "none"]
             ELSE IF sp = -1
             THEN [name |-> typ, typ |-> typString, panic |-> "none"]
             ELSE [name |-> <<>>, typ |-> typ, panic |-> "invalid type"]

\* parseParam without the switch on the type: any keyword is accepted.
parseParamAnyType(pattern) ==
    IF Len(pattern) = 0
    THEN [name |-> <<>>, typ |-> <<>>, panic |-> "index out of range"]
    ELSE IF pattern[1] # "{" \/ pattern[Len(pattern)] # "}"
    THEN [name |-> pattern, typ |-> typStatic, panic |-> "none"]
    ELSE IF Len(pattern) = 2
    THEN [name |-> <<>>, typ |-> typString, panic |-> "none"]
    ELSE LET sp   == IndexByte(pattern, " ")
             idx  == IF sp = -1 THEN 0 ELSE sp
             typ  == Slice(pattern, idx + 1, Len(pattern) - 1)
             idx2 == IF idx = 0 THEN 1 ELSE idx
         IN  [name |-> Slice(pattern, 1, idx2), typ |-> typ, panic |-> "none"]

\* parseParam returns the name and type of a route component; it panics on an
\* unknown type keyword (and, as Go does, on indexing an empty component).
parseParam(pattern) ==
    IF Len(pattern) = 0
    THEN [name |-> <<>>, typ |-> <<>>, panic |-> "index out of range"]
    ELSE IF pattern[1] # "{" \/ pattern[Len(pattern)] # "}"
    THEN [name |-> pattern, typ |-> typStatic, panic |-> "none"]
    ELSE IF Len(pattern) = 2
    THEN [name |-> <<>>, typ |-> typString, panic |-> "none"]
    ELSE LET sp   == IndexByte(pattern, " ")
             idx  == IF sp = -1 THEN 0 ELSE sp
             typ  == Slice(pattern, idx + 1, Len(pattern) - 1)
             idx2 == IF idx = 0 THEN 1 ELSE idx
         IN  IF typ \in {typInt, typUint, typFloat, typString, typWild}
             THEN [name |-> Slice(pattern, 1, idx2), typ |-> typ, panic |-> "none"]
             ELSE [name |-> <<>>, typ |-> typ, panic |-> "invalid type"]

----------------------------------------------------------------------------
(* path.Clean and cleanPath.                                               *)

\* The elements of a path between its slashes, empty ones included.
RECURSIVE Split(_)
Split(p) ==
    LET np == nextPart(p)
    IN  IF IndexByte(p, "/") = -1 THEN <<p>> ELSE <<np.part>> \o Split(np.remain)

\* path.Clean on a rooted path: drop empty and "." elements, let ".." remove
\* the element before it (or nothing at the root), join with single slashes.
RECURSIVE CleanElems(_, _)
CleanElems(elems, stack) ==
    IF elems = <<>> THEN stack
    ELSE LET e == Head(elems)
         IN  IF e = <<>> \/ e = <<".">> THEN CleanElems(Tail(elems), stack)
             ELSE IF e = <<".", ".">>
             THEN CleanElems(Tail(elems),
                             IF stack = <<>> THEN stack ELSE SubSeq(stack, 1, Len(stack) - 1))
             ELSE CleanElems(Tail(elems), Append(stack, e))

RECURSIVE JoinElems(_)
JoinElems(stack) ==
    IF stack = <<>> THEN <<>> ELSE <<"/">> \o Head(stack) \o JoinElems(Tail(stack))

pathClean(p) ==
    LET j == JoinElems(CleanElems(Split(p), <<>>))
    IN  IF j = <<>> THEN <<"/">> ELSE j

\* cleanPath putting the trailing slash back after the root as well.
cleanPathSlashRoot(p) ==
    IF p = <<>> THEN <<"/">>
    ELSE LET q  == IF p[1] # "/" THEN <<"/">> \o p ELSE p
             np == pathClean(q)
         IN  IF q[Len(q)] = "/" THEN np \o <<"/">> ELSE np

\* cleanPath returns the canonical path for p, keeping a trailing slash.
cleanPath(p) ==
    IF p = <<>> THEN <<"/">>
    ELSE LET q  == IF p[1] # "/" THEN <<"/">> \o p ELSE p
             np == pathClean(q)
         IN  IF q[Len(q)] = "/" /\ np # <<"/">> THEN np \o <<"/">> ELSE np

----------------------------------------------------------------------------
(* strconv.ParseUint, ParseInt and ParseFloat.                             *)
(* 64-bit values exceed the model checker's integers, so a number is held  *)
(* as its decimal digits (most significant first, no leading zero; zero is *)
(* the empty sequence) and compared digit by digit.                        *)

Digits == {"0", "1", "2", "3", "4", "5", "6", "7", "8", "9"}

DigitVal(c) ==
    CASE c = "0" -> 0 [] c = "1" -> 1 [] c = "2" -> 2 [] c = "3" -> 3 [] c = "4" -> 4
      [] c = "5" -> 5 [] c = "6" -> 6 [] c = "7" -> 7 [] c = "8" -> 8 [] c = "9" -> 9

\* n * 10 + d on digit sequences.
MulAdd(n, d) == IF n = <<>> /\ d = 0 THEN <<>> ELSE Append(n, d)

\* a < b on digit sequences.
RECURSIVE LexLess(_, _)
LexLess(a, b) ==
    IF a = <<>> THEN FALSE
    ELSE IF Head(a) # Head(b) THEN Head(a) < Head(b)
    ELSE LexLess(Tail(a), Tail(b))

BigLess(a, b) == Len(a) < Len(b) \/ (Len(a) = Len(b) /\ LexLess(a, b))

\* 1<<64 - 1 = 18446744073709551615
maxUint64 == <<1,8,4,4,6,7,4,4,0,7,3,7,0,9,5,5,1,6,1,5>>
\* maxUint64/10 + 1 = 1844674407370955162
cutoffUint64 == <<1,8,4,4,6,7,4,4,0,7,3,7,0,9,5,5,1,6,2>>
\* 1<<63 = 9223372036854775808
cutoffInt64 == <<9,2,2,3,3,7,2,0,3,6,8,5,4,7,7,5,8,0,8>>

\* The digit loop of strconv.ParseUint(s, 10, 64).
RECURSIVE ParseUintLoop(_, _)
ParseUintLoop(s, n) ==
    IF s = <<>> THEN [err |-> "none", n |-> n]
    ELSE IF Head(s) \notin Digits THEN [err |-> "syntax", n |-> <<>>]
    ELSE IF ~BigLess(n, cutoffUint64) THEN [err |-> "range", n |-> maxUint64]
    ELSE LET n1 == MulAdd(n, DigitVal(Head(s)))
         IN  IF BigLess(maxUint64, n1) THEN [err |-> "range", n |-> maxUint64]
             ELSE ParseUintLoop(Tail(s), n1)

ParseUint(s) ==
    IF s = <<>> THEN [err |-> "syntax", n |-> <<>>] ELSE ParseUintLoop(s, <<>>)

\* ParseInt without the test of the range of int64.
ParseIntUnchecked(s) ==
    IF s = <<>> THEN [err |-> "syntax", neg |-> FALSE, n |-> <<>>]
    ELSE LET neg  == s[1] = "-"
             rest == IF s[1] \in {"+", "-"} THEN Tail(s) ELSE s
             un   == ParseUint(rest)
         IN  IF un.err # "none" THEN [err |-> un.err, neg |-> FALSE, n |-> <<>>]
             ELSE [err |-> "none", neg |-> neg /\ un.n # <<>>, n |-> un.n]

\* strconv.ParseInt(s, 10, 64); the value is a sign and a magnitude.
ParseInt(s) ==
    IF s = <<>> THEN [err |-> "syntax", neg |-> FALSE, n |-> <<>>]
    ELSE LET neg  == s[1] = "-"
             rest == IF s[1] \in {"+", "-"} THEN Tail(s) ELSE s
             un   == ParseUint(rest)
         IN  IF un.err = "syntax" THEN [err |-> "syntax", neg |-> FALSE, n |-> <<>>]
             ELSE IF ~neg /\ ~BigLess(un.n, cutoffInt64)
             THEN [err |-> "range", neg |-> FALSE, n |-> <<>>]
             ELSE IF neg /\ BigLess(cutoffInt64, un.n)
             THEN [err |-> "range", neg |-> FALSE, n |-> <<>>]
             ELSE [err |-> "none", neg |-> neg /\ un.n # <<>>, n |-> un.n]

\* Digits of a decimal mantissa, leading (or trailing) zeros removed.
RECURSIVE StripLeft(_)
StripLeft(ds) == IF ds # <<>> /\ Head(ds) = 0 THEN StripLeft(Tail(ds)) ELSE ds

RECURSIVE StripRight(_)
StripRight(ds) ==
    IF ds # <<>> /\ ds[Len(ds)] = 0 THEN StripRight(SubSeq(ds, 1, Len(ds) - 1)) ELSE ds

\* strconv.ParseFloat(s, 64) on plain decimal literals: an optional sign,
\* digits with at most one point, at least one digit.  Exponents, hex
\* literals, "inf" and "nan" are not modelled: no input of the model has
\* them, and every other string is a syntax error as in strconv.  The value
\* is kept as sign, integer digits and fraction digits (no rounding).
ParseFloat(s) ==
    LET rest  == IF s # <<>> /\ s[1] \in {"+", "-"} THEN Tail(s) ELSE s
        dot   == IndexByte(rest, ".")
        ip    == IF dot = -1 THEN rest ELSE Slice(rest, 0, dot)
        fp    == IF dot = -1 THEN <<>> ELSE Slice(rest, dot + 1, Len(rest))
        ok    == /\ \A i \in 1..Len(ip) : ip[i] \in Digits
                 /\ \A i \in 1..Len(fp) : fp[i] \in Digits
                 /\ Len(ip) + Len(fp) > 0
        int   == StripLeft([i \in 1..Len(ip) |-> DigitVal(ip[i])])
        frac  == StripRight([i \in 1..Len(fp) |-> DigitVal(fp[i])])
    IN  IF ~ok THEN [err |-> "syntax", neg |-> FALSE, int |-> <<>>, frac |-> <<>>]
        ELSE [err |-> "none", neg |-> s[1] = "-" /\ (int # <<>> \/ frac # <<>>),
              int |-> int, frac |-> frac]

----------------------------------------------------------------------------
(* The route tree and the request.                                         *)

\* NewNode with a handler already in the map of the node.
NewNodeHandled(name, typ) ==
    [name |-> name, typ |-> typ, handlers |-> [m \in {"GET"} |-> 0], route |-> <<>>,
     child |-> <<>>]

\* A node of the tree: handlers maps a method to the handler registered for
\* it, route is the pattern stored by Handle, child the ordered children.
NewNode(name, typ) ==
    [name |-> name, typ |-> typ, handlers |-> <<>>, route |-> <<>>, child |-> <<>>]

\* SetHandler on a fresh map: the entries of the other methods are lost.
SetOnlyHandler(handlers, method, h) == [m \in {method} |-> h]

\* handlers[method] = h
SetHandler(handlers, method, h) ==
    [m \in DOMAIN handlers \cup {method} |-> IF m = method THEN h ELSE handlers[m]]

\* New with no options: the root node and the default handlers.  notFound is
\* "default" (http.NotFound) or "wrapped" (notFoundHandler(h), set by the
\* NotFound option); notFoundCalls is then the handler h, given by the calls it
\* makes on its http.ResponseWriter.
NewMux ==
    [node             |-> NewNode(<<"/">>, typStatic),
     notFound         |-> "default",
     notFoundCalls    |-> <<>>,
     methodNotAllowed |-> "default",
     options          |-> "default"]

\* An incoming request: its method, its URL path and its context, which
\* holds the captured parameters (ctxParam keys) and the route (ctxRoute).
NewRequest(method, path) ==
    [method |-> method, path |-> path, params |-> <<>>, hasRoute |-> FALSE, route |-> <<>>]

\* addValue stores a named parameter in the request context; a later value
\* of the same name shadows the earlier one.
addValue(r, name, typ, raw, offset, val) ==
    IF name # <<>>
    THEN [r EXCEPT !.params =
            [k \in DOMAIN r.params \cup {name} |->
                IF k = name
                THEN [Value |-> val, Raw |-> raw, Name |-> name, Type |-> typ, Offset |-> offset]
                ELSE r.params[k]]]
    ELSE r

\* The result of match when the node matched part, with remain left over.
matched(part, remain, r) == [part |-> part, remain |-> remain, r |-> r, panic |-> FALSE]

\* The typed cases of match: part and remain come from nextPart(path).
matchPart(n, path, part, remain, offset, r) ==
    CASE n.typ = typStatic ->
            IF n.name = part THEN matched(part, remain, r) ELSE matched(<<>>, path, r)
      [] n.typ = typString ->
            matched(part, remain, addValue(r, n.name, n.typ, part, offset, [string |-> part]))
      [] n.typ = typUint ->
            IF ParseUint(part).err # "none" THEN matched(<<>>, path, r)
            ELSE matched(part, remain,
                         addValue(r, n.name, n.typ, part, offset,
                                  [uint64 |-> ParseUint(part).n]))
      [] n.typ = typInt ->
            IF ParseInt(part).err # "none" THEN matched(<<>>, path, r)
            ELSE matched(part, remain,
                         addValue(r, n.name, n.typ, part, offset,
                                  [int64 |-> [neg |-> ParseInt(part).neg,
                                              n |-> ParseInt(part).n]]))
      [] n.typ = typFloat ->
            IF ParseFloat(part).err # "none" THEN matched(<<>>, path, r)
            ELSE matched(part, remain,
                         addValue(r, n.name, n.typ, part, offset,
                                  [float64 |-> [neg |-> ParseFloat(part).neg,
                                                int |-> ParseFloat(part).int,
                                                frac |-> ParseFloat(part).frac]]))
      [] OTHER -> [part |-> <<>>, remain |-> <<>>, r |-> r, panic |-> TRUE]

\* match with a wildcard taking one component, as the other variables do.
matchWildAsPart(n, path, offset, r) ==
    IF n.typ = typWild
    THEN matched(nextPart(path).part, nextPart(path).remain,
                 addValue(r, n.name, n.typ, nextPart(path).part, offset,
                          [string |-> nextPart(path).part]))
    ELSE matchPart(n, path, nextPart(path).part, nextPart(path).remain, offset, r)

\* node.match: the matched part of the path (empty when the node does not
\* match), the remainder, and the request with any captured parameter.
match(n, path, offset, r) ==
    IF n.typ = typWild
    THEN matched(path, <<>>, addValue(r, n.name, n.typ, path, offset, [string |-> path]))
    ELSE matchPart(n, path, nextPart(path).part, nextPart(path).remain, offset, r)

----------------------------------------------------------------------------
(* Registration: the Handle option.                                        *)

\* strings.ToUpper on the method names the model uses.
ToUpper(method) ==
    CASE method = "get" -> "GET" [] method = "post" -> "POST" [] OTHER -> method

\* Incompatible with its last case left out: a static component is never
\* checked against the children already there.
IncompatibleVariablesOnly(pointer, name, typ) ==
    IF Len(pointer.child) = 0 THEN "none"
    ELSE LET child == pointer.child[1]
         IN  IF typ # typStatic /\ child.typ # typ THEN "conflicting type"
             ELSE IF typ # typStatic /\ child.name # name THEN "conflicting variable name"
             ELSE "none"

\* Incompatible without any check: every component is accepted.
Compatible(pointer, name, typ) == "none"

\* Incompatible with its first two cases left out: a variable is never
\* checked against the children already there.
IncompatibleStaticOnly(pointer, name, typ) ==
    IF Len(pointer.child) = 0 THEN "none"
    ELSE IF typ = typStatic /\ pointer.child[1].typ # typ THEN "conflicting type"
    ELSE "none"

\* The check of a new component against the first child already at this
\* position: "none", or the panic it raises.
Incompatible(pointer, name, typ) ==
    IF Len(pointer.child) = 0 THEN "none"
    ELSE LET child == pointer.child[1]
         IN  IF typ # typStatic /\ child.typ # typ THEN "conflicting type"
             ELSE IF typ # typStatic /\ child.name # name THEN "conflicting variable name"
             ELSE IF typ = typStatic /\ child.typ # typ THEN "conflicting type"
             ELSE "none"

\* FindChild without the search: no child is ever found.
FindNoChild(pointer, name) == 0

\* The index of the first child with this name, 0 when there is none.
FindChild(pointer, name) ==
    IF \E i \in 1..Len(pointer.child) : pointer.child[i].name = name
    THEN CHOOSE i \in 1..Len(pointer.child) :
            /\ pointer.child[i].name = name
            /\ \A j \in 1..(i - 1) : pointer.child[j].name # name
    ELSE 0

\* alreadyRegistered without the lookup: no handler is ever found.
neverRegistered(n, method) == FALSE

\* _, ok := n.handlers[method]: the node has a handler for the method.
alreadyRegistered(n, method) == method \in DOMAIN n.handlers

\* wildNotLast without the test on the type.
wildAnywhere(typ, remain) == FALSE

\* typ == typWild && remain != "": a wildcard that is not the last component.
wildNotLast(typ, remain) == typ = typWild /\ remain # <<>>

\* The pathloop of Handle from the node pointer, with part and remain the
\* current component and what follows it.  Returns the node as the loop
\* leaves it and the panic that ended it ("none" when it returned); what was
\* written to the tree before a panic stays written.
RECURSIVE pathloop(_, _, _, _, _, _)

\* One pass through the body of pathloop: pp is parseParam(part), next the
\* component after this one.
pathstep(pointer, pp, remain, next, r, method, h) ==
    IF pp.panic # "none" THEN [node |-> pointer, panic |-> pp.panic]
    ELSE IF wildNotLast(pp.typ, remain)
    THEN [node |-> pointer, panic |-> "wildcards must be the last component"]
    ELSE IF Incompatible(pointer, pp.name, pp.typ) # "none"
    THEN [node |-> pointer, panic |-> Incompatible(pointer, pp.name, pp.typ)]
    ELSE LET i == FindChild(pointer, pp.name)
         IN  IF i # 0
             THEN IF remain = <<>>
                  THEN IF ~alreadyRegistered(pointer.child[i], method)
                       THEN pathloop([pointer EXCEPT
                                        !.child[i].route = r,
                                        !.child[i].handlers = SetHandler(@, method, h)],
                                     next.part, next.remain, r, method, h)
                       ELSE [node |-> pointer, panic |-> "route already registered"]
                  ELSE LET res == pathloop(pointer.child[i], next.part, next.remain,
                                           r, method, h)
                       IN  [node |-> [pointer EXCEPT !.child[i] = res.node],
                            panic |-> res.panic]
             ELSE LET n0  == NewNode(pp.name, pp.typ)
                      n   == IF remain = <<>>
                             THEN [n0 EXCEPT !.route = r,
                                             !.handlers = SetHandler(@, method, h)]
                             ELSE n0
                      res == pathloop(n, next.part, next.remain, r, method, h)
                  IN  [node |-> [pointer EXCEPT !.child = Append(@, res.node)],
                       panic |-> res.panic]

pathloop(pointer, part, remain, r, method, h) ==
    IF ~(remain # <<>> \/ part # <<>>) THEN [node |-> pointer, panic |-> "none"]
    ELSE pathstep(pointer, parseParam(part), remain, nextPart(remain), r, method, h)

\* The option returned by Handle applied to the mux m, for the method in
\* upper case and the pattern r without its leading slash.
register(m, method, r, h) ==
    IF r = <<>>
    THEN IF alreadyRegistered(m.node, method)
         THEN [mux |-> m, panic |-> "route already registered"]
         ELSE [mux |-> [m EXCEPT !.node.route = r,
                                 !.node.handlers = SetHandler(@, method, h)],
               panic |-> "none"]
    ELSE LET res == pathloop(m.node, nextPart(r).part, nextPart(r).remain, r, method, h)
         IN  [mux |-> [m EXCEPT !.node = res.node], panic |-> res.panic]

\* Handle without the check of the pattern against its cleaned form.
HandleUnchecked(m, method, r, h) ==
    register(m, ToUpper(method), Slice(r, 1, Len(r)), h)

\* Handle(method, r, h) applied to the mux m: the mux it leaves and the
\* panic it raised, "none" when it returned.
Handle(m, method, r, h) ==
    IF cleanPath(r) # r THEN [mux |-> m, panic |-> "route is unclean"]
    ELSE register(m, ToUpper(method), Slice(r, 1, Len(r)), h)

----------------------------------------------------------------------------
(* Matching and dispatch: ServeMux.handler.                                *)

\* The handlers handler can return.  kind is "registered" (id is the handler
\* given to Handle), "notFound", "methodNotAllowed" (which: the configured
\* one), "options" (which hook, called with verbs) or "redirect" (to url).
Hd(kind, which) == [kind |-> kind, which |-> which, id |-> 0, verbs |-> {}, url |-> <<>>]

\* optionsOf collecting the methods of the root instead of those of n.
optionsOfRoot(m, n) == [Hd("options", m.options) EXCEPT !.verbs = DOMAIN m.node.handlers]

\* mux.options(n): defOptions, or the closure set by the Options option; both
\* collect the methods ranged over in n.handlers.
optionsOf(m, n) == [Hd("options", m.options) EXCEPT !.verbs = DOMAIN n.handlers]

\* len(mux.node.handlers) > 0, the test made for the root
rootHasHandlers(m, n) == Cardinality(DOMAIN m.node.handlers) > 0

\* len(node.child[0].handlers) > 0, the test made for a matched variable child
dynHasHandlers(m, n) == Cardinality(DOMAIN n.handlers) > 0

\* len(mux.node.handlers) > 0, the test made for a matched static child
staticHasHandlers(m, n) == Cardinality(DOMAIN m.node.handlers) > 0

\* The choice of handler once the path ends at node n; any is the result of
\* the len(...handlers) > 0 test of the branch that got there.
dispatch(m, n, any, r) ==
    IF r.method \in DOMAIN n.handlers
    THEN [h |-> [Hd("registered", "") EXCEPT !.id = n.handlers[r.method]],
          r |-> [r EXCEPT !.hasRoute = TRUE, !.route = n.route]]
    ELSE IF r.method = "OPTIONS" /\ m.options # "nil"
    THEN [h |-> optionsOf(m, n), r |-> r]
    ELSE IF m.methodNotAllowed # "nil" /\ (m.options # "nil" \/ any)
    THEN [h |-> Hd("methodNotAllowed", m.methodNotAllowed), r |-> r]
    ELSE [h |-> Hd("notFound", m.notFound), r |-> r]

\* The nodeloop of handler at node, and the loop over the children of a
\* node that is not a variable route (staticloop, from child number i).
RECURSIVE nodeloop(_, _, _, _, _)
RECURSIVE staticloop(_, _, _, _, _, _)

\* The variable route: mt is what the only child returned from match.
variable(m, child, offset, mt, r) ==
    IF mt.panic THEN [h |-> Hd("panic", "unknown type"), r |-> r]
    ELSE IF mt.part = <<>> THEN [h |-> Hd("notFound", m.notFound), r |-> mt.r]
    ELSE IF mt.remain = <<>> THEN dispatch(m, child, dynHasHandlers(m, child), mt.r)
    ELSE nodeloop(m, child, mt.remain, offset + 1, mt.r)

\* The static route: mt is what child number i returned from match.
static(m, node, i, offset, mt, r) ==
    IF mt.panic THEN [h |-> Hd("panic", "unknown type"), r |-> r]
    ELSE IF mt.part = <<>> THEN staticloop(m, node, i + 1, mt.remain, offset + 1, mt.r)
    ELSE IF mt.remain = <<>>
    THEN dispatch(m, node.child[i], staticHasHandlers(m, node.child[i]), mt.r)
    ELSE nodeloop(m, node.child[i], mt.remain, offset + 1, mt.r)

nodeloop(m, node, path, offset, r) ==
    IF Len(node.child) = 1 /\ node.child[1].typ # typStatic
    THEN variable(m, node.child[1], offset, match(node.child[1], path, offset, r), r)
    ELSE staticloop(m, node, 1, path, offset, r)

staticloop(m, node, i, path, offset, r) ==
    IF i > Len(node.child) THEN [h |-> Hd("notFound", m.notFound), r |-> r]
    ELSE static(m, node, i, offset, match(node.child[i], path, offset, r), r)

\* walk for which a path that ends in a slash names no node.
walkExact(m, r, path) ==
    IF path = <<>>
    THEN dispatch(m, m.node, rootHasHandlers(m, m.node), r)
    ELSE IF HasTrailingSlash(path) THEN [h |-> Hd("notFound", m.notFound), r |-> r]
    ELSE nodeloop(m, m.node, path, 1, r)

\* handler once the path is canonical: path is the path matched, without
\* its leading slash.
walk(m, r, path) ==
    IF path = <<>>
    THEN dispatch(m, m.node, rootHasHandlers(m, m.node), r)
    ELSE nodeloop(m, m.node, path, 1, r)

\* canonical with CONNECT requests redirected as the others are.
canonicalAnyMethod(m, r, clean) ==
    IF clean # r.path
    THEN [h |-> [Hd("redirect", "") EXCEPT !.url = clean], r |-> r]
    ELSE walk(m, r, TrimSlash(clean))

\* The canonicalization step of handler: clean is cleanPath(r.URL.Path).
canonical(m, r, clean) ==
    IF r.method # "CONNECT"
    THEN IF clean # r.path
         THEN [h |-> [Hd("redirect", "") EXCEPT !.url = clean], r |-> r]
         ELSE walk(m, r, TrimSlash(clean))
    ELSE walk(m, r, TrimSlash(r.path))

\* handler returns the handler to use for the request r and the request
\* with the route and the parameters set on its context.
handler(m, r) == canonical(m, r, cleanPath(r.path))

\* strings.Join(verbs, ",") with the verbs in the order given.
RECURSIVE Join(_)
Join(verbs) ==
    IF verbs = <<>> THEN <<>>
    ELSE IF Len(verbs) = 1 THEN verbs
    ELSE <<Head(verbs), ",">> \o Join(Tail(verbs))

\* The orders in which a range over a map with these keys can yield them.
Orders(S) ==
    {o \in [1..Cardinality(S) -> S] : \A i, j \in 1..Cardinality(S) : i # j => o[i] # o[j]}

\* What the handlers of this package write: the status code (0 stands for
\* whatever a handler supplied by the caller writes) and the headers they
\* set.  order is the order in which defOptions ranges over node.handlers.
respond(h, order) ==
    LET none == [code |-> 0, hasAllow |-> FALSE, Allow |-> <<>>, Location |-> <<>>]
    IN  CASE h.kind = "notFound" /\ h.which = "default" -> [none EXCEPT !.code = 404]
          [] h.kind = "methodNotAllowed" /\ h.which = "default" -> [none EXCEPT !.code = 405]
          [] h.kind = "redirect" -> [none EXCEPT !.code = 308, !.Location = h.url]
          [] h.kind = "options" /\ h.which = "default" ->
                [none EXCEPT !.code = 200, !.hasAllow = TRUE, !.Allow = Join(order)]
          [] OTHER -> none

----------------------------------------------------------------------------
(* The not-found handler: defCodeWriter and notFoundHandler.               *)

StatusOK       == 200
StatusNotFound == 404
testCode       == 123

\* A call made on an http.ResponseWriter: Write(p) or WriteHeader(code).
WriteCall(p) == [op |-> "Write", code |-> 0, p |-> p]
WriteHeaderCall(code) == [op |-> "WriteHeader", code |-> code, p |-> ""]

\* defCodeWriter.WriteHeader; sink is the embedded ResponseWriter, held as
\* the calls it received.
WriteHeader(w, statusCode) ==
    [w EXCEPT !.wrote = TRUE, !.sink = Append(@, WriteHeaderCall(statusCode))]

\* Write without the test of wrote: the default status goes out before
\* every write.
WriteUnguarded(w, p) ==
    [WriteHeader(w, w.code) EXCEPT !.sink = Append(@, WriteCall(p))]

\* defCodeWriter.Write
Write(w, p) ==
    LET w1 == IF ~w.wrote THEN WriteHeader([w EXCEPT !.wrote = TRUE], w.code) ELSE w
    IN  [w1 EXCEPT !.sink = Append(@, WriteCall(p))]

\* h.ServeHTTP(w, r) for the handler h that makes these calls on w.
RECURSIVE ServeCalls(_, _)
ServeCalls(w, calls) ==
    IF calls = <<>> THEN w
    ELSE ServeCalls(IF Head(calls).op = "Write"
                    THEN Write(w, Head(calls).p)
                    ELSE WriteHeader(w, Head(calls).code),
                    Tail(calls))

\* notFoundHandler(h) serving a request: the defCodeWriter when h returns.
notFoundHandler(calls) ==
    ServeCalls([code |-> StatusNotFound, wrote |-> FALSE, sink |-> <<>>], calls)

\* The status of the response an http.ResponseWriter sends after these
\* calls: the code of the first WriteHeader, or 200 when a Write came first
\* or the handler returned without a call.
finalStatus(sink) ==
    IF sink # <<>> /\ Head(sink).op = "WriteHeader" THEN Head(sink).code ELSE StatusOK

\* What notFoundHandler(h) leaves on the wire.
respondWrapped(w) ==
    [code |-> finalStatus(w.sink), hasAllow |-> FALSE, Allow |-> <<>>, Location |-> <<>>,
     sink |-> w.sink]

----------------------------------------------------------------------------
(* The parameters of a request and its normalized path: Param, WithParam   *)
(* and Path.                                                               *)

\* The nil interface value, and the zero ParamInfo.
nilValue == [nil |-> TRUE]

zeroParamInfo ==
    [Value |-> nilValue, Raw |-> <<>>, Name |-> <<>>, Type |-> <<>>, Offset |-> 0]

\* Param finding a string parameter of every name.
ParamFound(r, name) ==
    IF name \in DOMAIN r.params THEN r.params[name]
    ELSE [zeroParamInfo EXCEPT !.Value = [string |-> <<>>]]

\* Param returns the named route parameter of the request's context: the
\* zero ParamInfo when the context has no value under ctxParam(name).
Param(r, name) ==
    IF name \in DOMAIN r.params THEN r.params[name] ELSE zeroParamInfo

\* WithParam writing the parameter into the context of the request it was given.
WithParamInPlace(r, name, val) ==
    IF Param(r, name).Value = nilValue THEN [r |-> r, out |-> r]
    ELSE LET q == [r EXCEPT !.params[name] =
                        [Param(r, name) EXCEPT !.Value = [string |-> val],
                                               !.Raw = val, !.Type = typString]]
         IN  [r |-> q, out |-> q]

\* WithParam(r, name, val): out is the request returned, r the request it
\* was given as it is after the call.
WithParam(r, name, val) ==
    IF Param(r, name).Value = nilValue THEN [r |-> r, out |-> r]
    ELSE [r   |-> r,
          out |-> [r EXCEPT !.params[name] =
                        [Param(r, name) EXCEPT !.Value = [string |-> val],
                                               !.Raw = val, !.Type = typString]]]

\* What Path returns: the string and the error ("nil", errNoRoute or
\* errNoParam), or that it panicked.
returned(s, err) == [s |-> s, err |-> err, panic |-> FALSE]

\* The loop of Path: route and oldPath are what is left of the route and of
\* the request path, canonicalPath what was written so far.
RECURSIVE pathComponents(_, _, _, _, _)

\* One pass through the loop once the component of the route is known not to
\* be empty: pp is parseParam(component).
writeComponent(r, pp, pathComponent, oldPath, route, hasTrailingSlash, canonicalPath) ==
    IF pp.typ = typStatic
    THEN pathComponents(r, route, oldPath, hasTrailingSlash,
                        canonicalPath \o <<"/">> \o pp.name)
    ELSE IF pp.name = <<>>
    THEN pathComponents(r, route, oldPath, hasTrailingSlash,
                        canonicalPath \o <<"/">> \o pathComponent)
    ELSE IF Param(r, pp.name).Value = nilValue THEN returned(<<>>, "errNoParam")
    ELSE pathComponents(r, route, oldPath, hasTrailingSlash,
                        canonicalPath \o <<"/">> \o Param(r, pp.name).Raw)

pathComponents(r, route, oldPath, hasTrailingSlash, canonicalPath) ==
    IF nextPart(route).part = <<>>
    THEN returned(IF hasTrailingSlash THEN canonicalPath \o <<"/">> ELSE canonicalPath,
                  "nil")
    ELSE writeComponent(r, parseParam(nextPart(route).part), nextPart(oldPath).part,
                        nextPart(oldPath).remain, nextPart(route).remain,
                        hasTrailingSlash, canonicalPath)

\* Path without the test for the empty route.
PathOfAnyRoute(r) ==
    IF ~r.hasRoute THEN [s |-> <<>>, err |-> "nil", panic |-> TRUE]
    ELSE pathComponents(r, r.route, TrimSlash(r.path), HasTrailingSlash(r.route), <<>>)

\* Path(r).  The type assertion on the value under ctxRoute{} panics when
\* the context has none.
Path(r) ==
    IF ~r.hasRoute THEN [s |-> <<>>, err |-> "nil", panic |-> TRUE]
    ELSE IF r.route = <<>> THEN returned(<<>>, "errNoRoute")
    ELSE pathComponents(r, r.route, TrimSlash(r.path), HasTrailingSlash(r.route), <<>>)

----------------------------------------------------------------------------
(* The inputs of the model: route patterns, methods and request paths.     *)

pRoot     == <<"/">>
pA        == <<"/","a">>
pAB       == <<"/","a","/","b">>
pAC       == <<"/","a","/","c">>
pASlash   == <<"/","a","/">>
pInt      == <<"/","{","i","n","t","}">>
pIInt     == <<"/","{","i"," ","i","n","t","}">>
pUUint    == <<"/","{","u"," ","u","i","n","t","}">>
pIIntB    == <<"/","{","i"," ","i","n","t","}","/","b">>
pSString  == <<"/","{","s"," ","s","t","r","i","n","g","}">>
pAnon     == <<"/","{","}">>
pFFloat   == <<"/","{","f"," ","f","l","o","a","t","}">>
pAPath    == <<"/","a","/","{","p"," ","p","a","t","h","}">>
pPath     == <<"/","{","p"," ","p","a","t","h","}">>
pPathA    == <<"/","{","p"," ","p","a","t","h","}","/","a">>
pBadTyp   == <<"/","{","b","a","d","}">>
pAPathB   == <<"/","a","/","{","p"," ","p","a","t","h","}","/","b">>
pGoodOne  == <<"/","g","o","o","d","/","o","n","e">>
pGoodTwo  == <<"/","g","o","o","d","/","t","w","o">>
pUnclean  == <<"/","/","a">>
pUnrooted == <<"a">>
pEmpty    == <<>>

\* The (method, pattern) pairs Handle is called with.
Registrations ==
    ({"GET"} \X {pRoot, pA, pAB, pInt, pIInt, pUUint, pIIntB, pSString, pFFloat,
                 pAPath, pPath, pPathA, pAPathB, pGoodOne, pGoodTwo})
    \cup {<<"post", pA>>, <<"OPTIONS", pA>>, <<"POST", pASlash>>, <<"POST", pIInt>>,
          <<"POST", pRoot>>}

\* Numerals at the edges of the 64-bit ranges.
maxInt64Text   == <<"9","2","2","3","3","7","2","0","3","6","8","5","4","7","7","5","8","0","7">>
overInt64Text  == <<"9","2","2","3","3","7","2","0","3","6","8","5","4","7","7","5","8","0","8">>
underInt64Text == <<"-","9","2","2","3","3","7","2","0","3","6","8","5","4","7","7","5","8","0","9">>
maxUint64Text  ==
    <<"1","8","4","4","6","7","4","4","0","7","3","7","0","9","5","5","1","6","1","5">>
overUint64Text ==
    <<"1","8","4","4","6","7","4","4","0","7","3","7","0","9","5","5","1","6","1","6">>

\* The single path segments requests are made of.
Segments ==
    {<<"a">>, <<"b">>, <<"1">>, <<"-","1">>, <<"+","1">>, <<"1",".","5">>,
     <<"n","o","p","e">>,
     maxInt64Text, overInt64Text, <<"-">> \o overInt64Text, underInt64Text,
     maxUint64Text, overUint64Text}

\* The request paths: one segment, and some longer and some unclean ones.
Paths ==
    {<<"/">> \o s : s \in Segments}
    \cup {<<"/">>, pAB, pASlash, <<"/","a","/","b","/","c">>, <<"/","1","/","b">>,
          <<"/","g","o","o","d">>, pGoodOne, pUnclean}

\* Patterns with a single token between the braces, with a type that is no
\* keyword, and patterns that are not clean.
pSTok       == <<"/","{","s","}">>
pPathTok    == <<"/","{","p","a","t","h","}">>
pStaticTok  == <<"/","{","s","t","a","t","i","c","}">>
pNBad       == <<"/","{","n"," ","b","a","d","}">>
pABad       == <<"/","a","/","{","n"," ","b","a","d","}">>
pPathBad    == <<"/","{","p"," ","p","a","t","h","}","/","{","n"," ","b","a","d","}">>
pJBad       == <<"/","{","j"," ","i","n","t","}","/","{","n"," ","b","a","d","}">>
pUncleanBad == <<"/","/","{","n"," ","b","a","d","}">>
pDot        == <<"/","a","/",".","/","b">>
pDotDot     == <<"/","a","/",".",".","/","b">>
pSlashSlash == <<"/","a","/","/">>

\* The (method, pattern) pairs Handle is called with when the patterns are
\* the subject.
PatternRegistrations ==
    {"GET"} \X {pA, pAB, pASlash, pIInt, pInt, pPathTok, pSString, pAnon, pSTok, pBadTyp,
                 pStaticTok, pNBad, pABad, pPathBad, pJBad, pUncleanBad, pUnclean,
                 pUnrooted, pEmpty, pDot, pDotDot, pSlashSlash}

\* Routes with parameters of every kind, named, anonymous and repeated, and
\* the requests, parameter names and value the handlers are tried with.
pASB       == <<"/","a","/","{","s"," ","s","t","r","i","n","g","}","/","b">>
pSAnyPath  == <<"/","{","s"," ","s","t","r","i","n","g","}","/","{","p","a","t","h","}">>
pRepeat    == <<"/","{","i"," ","i","n","t","}","/","{","i"," ","s","t","r","i","n","g","}">>
pAnonSlash == <<"/","{","}","/">>

NormRegistrations ==
    {"GET"} \X {pRoot, pASlash, pIIntB, pUUint, pFFloat, pASB, pAPath, pSAnyPath,
                 pRepeat, pAnonSlash}

NormPaths ==
    {pRoot, pA, pASlash, <<"/","1","/","b">>, <<"/","1">>, <<"/","1",".","5">>,
     <<"/","a","/","x","/","b">>, <<"/","a","/","x","/","y">>, <<"/","x","/","y","/","z">>,
     <<"/","1","/","x">>, <<"/","b","/">>, <<"/","z","z">>}

ParamNames == {<<"i">>, <<"s">>, <<"p">>, <<"u">>, <<"f">>, <<"z","z">>}

ParamValues == {<<"m","e">>}

\* Request paths that are not canonical: a duplicate slash, "." and ".."
\* segments, no leading slash, the empty path, with and without a trailing
\* slash.
UncleanPaths ==
    {pUnclean, <<"/","a","/","/","b">>, <<"/","a","/",".","/","b">>,
     <<"/","a","/",".",".","/","b">>, <<"/",".",".">>, pUnrooted, pEmpty,
     <<"/","a","/","/">>, <<"/","a","/","b","/",".",".","/">>, <<"/","a","/",".">>,
     <<"/",".","/">>}

\* The calls a handler of the caller can make on its ResponseWriter, and the
\* handlers: every sequence of at most MaxWrites calls.
ResponseCalls ==
    {WriteCall(""), WriteCall("body"), WriteHeaderCall(testCode),
     WriteHeaderCall(StatusOK)}

HandlerCalls == UNION {[1..n -> ResponseCalls] : n \in 0..MaxWrites}

\* The (method, path) pairs of the requests served.
Requests ==
    ({"GET"} \X Paths)
    \cup ({"POST", "OPTIONS"} \X
            {<<"/">>, <<"/","a">>, pAB, <<"/","1">>, <<"/","g","o","o","d">>})
    \cup ({"CONNECT"} \X {<<"/","a">>, pUnclean})

----------------------------------------------------------------------------
(* The state machine.  An operation is called when the caller is idle; its *)
(* result stays in last until the caller goes on (Return).                 *)

idle == [op |-> "idle"]

Init ==
    /\ mux = NewMux
    /\ nCalls = 0
    /\ registered = {}
    /\ panics = 0
    /\ last = idle

\* The state after Handle(method, pattern, h) ended with res.
applied(method, pattern, h, res) ==
    /\ mux' = res.mux
    /\ nCalls' = nCalls + 1
    /\ registered' = IF res.panic = "none"
                     THEN registered \cup
                          {[method |-> ToUpper(method), pattern |-> pattern, h |-> h]}
                     ELSE registered
    /\ panics' = IF res.panic = "none" THEN panics ELSE panics + 1
    /\ last' = [op |-> "Handle", method |-> method, pattern |-> pattern,
                h |-> h, panic |-> res.panic]

\* The option Handle(method, pattern, h) is applied to the mux; h is a
\* handler no earlier call was given.
HandleOpt(method, pattern) ==
    /\ last = idle
    /\ nCalls < MaxCalls
    /\ applied(method, pattern, nCalls + 1, Handle(mux, method, pattern, nCalls + 1))

\* The option Options(f) is applied: f is nil or a function of the caller.
OptionsOpt(f) ==
    /\ last = idle
    /\ mux.options # f
    /\ mux' = [mux EXCEPT !.options = f]
    /\ UNCHANGED <<nCalls, registered, panics, last>>

\* The option MethodNotAllowed(h) is applied: h is nil or a handler of the caller.
MethodNotAllowedOpt(h) ==
    /\ last = idle
    /\ mux.methodNotAllowed # h
    /\ mux' = [mux EXCEPT !.methodNotAllowed = h]
    /\ UNCHANGED <<nCalls, registered, panics, last>>

\* The option NotFound(h) is applied: h is the handler making these calls.
NotFoundOpt(calls) ==
    /\ last = idle
    /\ mux.notFound # "wrapped" \/ mux.notFoundCalls # calls
    /\ mux' = [mux EXCEPT !.notFound = "wrapped", !.notFoundCalls = calls]
    /\ UNCHANGED <<nCalls, registered, panics, last>>

\* The handler is one the caller supplied: it can call Param, WithParam and
\* Path on the request it was passed.
ofCaller(h) ==
    \/ h.kind = "registered"
    \/ h.kind = "notFound" /\ h.which = "wrapped"

\* The handler serving the request calls Param(r, name).
ParamCall(name) ==
    /\ last.op = "ServeHTTP" /\ ofCaller(last.h)
    /\ last' = [op |-> "Param", path |-> last.path, h |-> last.h, r |-> last.r,
                name |-> name, out |-> Param(last.r, name)]
    /\ UNCHANGED <<mux, nCalls, registered, panics>>

\* The handler serving the request calls WithParam(r, name, val).
WithParamCall(name, val) ==
    /\ last.op = "ServeHTTP" /\ ofCaller(last.h)
    /\ last' = [op |-> "WithParam", path |-> last.path, h |-> last.h,
                r |-> WithParam(last.r, name, val).r, name |-> name, val |-> val,
                out |-> WithParam(last.r, name, val).out]
    /\ UNCHANGED <<mux, nCalls, registered, panics>>

\* The handler serving the request calls Path, on the request it was passed
\* or on the one WithParam returned.
PathCall ==
    /\ last.op \in {"ServeHTTP", "WithParam"} /\ ofCaller(last.h)
    /\ last' = [op |-> "Path", path |-> last.path, h |-> last.h, r |-> last.r,
                after |-> last.op,
                name |-> IF last.op = "WithParam" THEN last.name ELSE <<>>,
                val |-> IF last.op = "WithParam" THEN last.val ELSE <<>>,
                out |-> Path(IF last.op = "WithParam" THEN last.out ELSE last.r)]
    /\ UNCHANGED <<mux, nCalls, registered, panics>>

\* The request was served by res.h, which the request res.r was passed to.
served(method, path, res) ==
    /\ res.h.kind # "panic"
    /\ \E order \in Orders(res.h.verbs) :
          last' = [op |-> "ServeHTTP", method |-> method, path |-> path,
                   h |-> res.h, r |-> res.r,
                   resp |-> IF res.h.kind = "notFound" /\ res.h.which = "wrapped"
                            THEN respondWrapped(notFoundHandler(mux.notFoundCalls))
                            ELSE respond(res.h, order)]

\* ServeHTTP: the handler chosen by handler serves the request.
ServeHTTP(method, path) ==
    /\ last = idle
    /\ served(method, path, handler(mux, NewRequest(method, path)))
    /\ UNCHANGED <<mux, nCalls, registered, panics>>

\* The caller is done with the result of the last call.
Return ==
    /\ last # idle
    /\ last' = idle
    /\ UNCHANGED <<mux, nCalls, registered, panics>>

Next ==
    \/ \E reg \in Registrations : HandleOpt(reg[1], reg[2])
    \/ \E f \in {"nil", "custom"} : OptionsOpt(f)
    \/ \E h \in {"nil"} : MethodNotAllowedOpt(h)
    \/ \E req \in Requests : ServeHTTP(req[1], req[2])
    \/ Return

Spec == Init /\ [][Next]_vars

\* The mux with a handler of the caller for the requests that find no route.
NextNotFound ==
    \/ \E calls \in HandlerCalls : NotFoundOpt(calls)
    \/ \E reg \in {<<"GET", pA>>} : HandleOpt(reg[1], reg[2])
    \/ \E f \in {"nil"} : OptionsOpt(f)
    \/ \E req \in {"GET", "POST"} \X {pA, pAB, pUnclean} : ServeHTTP(req[1], req[2])
    \/ Return

SpecNotFound == Init /\ [][NextNotFound]_vars

\* The mux with handlers that read the parameters of their request and
\* normalize its path.
NextNorm ==
    \/ \E reg \in NormRegistrations : HandleOpt(reg[1], reg[2])
    \/ \E calls \in {<<>>} : NotFoundOpt(calls)
    \/ \E req \in {"GET"} \X NormPaths : ServeHTTP(req[1], req[2])
    \/ \E name \in ParamNames : ParamCall(name)
    \/ \E name \in ParamNames, val \in ParamValues : WithParamCall(name, val)
    \/ PathCall
    \/ Return

SpecNorm == Init /\ [][NextNorm]_vars

\* The mux built from patterns of every form, well formed or not.
NextPatterns ==
    \/ \E reg \in PatternRegistrations : HandleOpt(reg[1], reg[2])
    \/ \E req \in {"GET"} \X {pA, pAB, <<"/","1">>} : ServeHTTP(req[1], req[2])
    \/ Return

SpecPatterns == Init /\ [][NextPatterns]_vars

\* The mux serving requests whose paths are not canonical.
NextCanonical ==
    \/ \E reg \in {"GET", "CONNECT"} \X {pA, pAB, pASB} : HandleOpt(reg[1], reg[2])
    \/ \E req \in {"GET", "POST", "CONNECT"} \X
                    (UncleanPaths \cup {pRoot, pA, pAB, pASlash, <<"/","b">>}) :
            ServeHTTP(req[1], req[2])
    \/ Return

SpecCanonical == Init /\ [][NextCanonical]_vars

\* The (method, pattern) pairs and the requests of a mux whose tree grows
\* by registrations that share nodes, conflict, or panic half way down the
\* pattern.
TreeRegistrations ==
    ({"GET"} \X {pRoot, pA, pAB, pASlash, pIInt, pIIntB, pSString, pAPath, pAPathB,
                 pABad, pJBad, pGoodOne})
    \cup ({"POST"} \X {pA, pASlash, pIInt})

TreeRequests ==
    {"GET", "POST"} \X
        {pRoot, pA, pASlash, pAB, <<"/","1">>, <<"/","1","/","b">>, <<"/","b">>,
         <<"/","a","/","x","/","y">>, <<"/","g","o","o","d">>, pGoodOne}

NextTree ==
    \/ \E reg \in TreeRegistrations : HandleOpt(reg[1], reg[2])
    \/ \E req \in TreeRequests : ServeHTTP(req[1], req[2])
    \/ Return

SpecTree == Init /\ [][NextTree]_vars

----------------------------------------------------------------------------
(* New given several Handle options at once, in some order.                *)

\* The routes New is given; the handler of route number k is k.
OrderRoutes ==
    << <<"GET", pA>>, <<"GET", pAB>>, <<"GET", pASlash>>, <<"POST", pA>>,
       <<"GET", pIInt>>, <<"GET", pIIntB>>, <<"GET", pInt>>, <<"GET", pSString>>,
       <<"GET", pAPath>>, <<"GET", pABad>>, <<"GET", pGoodOne>>, <<"POST", pASlash>> >>

\* for _, o := range opts { o(mux) }: the options, each a Handle(method,
\* pattern, h), are applied in order to the mux m; a panic ends the loop.
RECURSIVE applyOpts(_, _)
applyOpts(m, opts) ==
    IF opts = <<>> THEN [mux |-> m, panic |-> "none"]
    ELSE LET res == Handle(m, Head(opts).method, Head(opts).pattern, Head(opts).h)
         IN  IF res.panic # "none" THEN res ELSE applyOpts(res.mux, Tail(opts))

\* New(opts...) ended with res.
built(opts, res) ==
    /\ mux' = res.mux
    /\ nCalls' = nCalls + Len(opts)
    /\ registered' = IF res.panic = "none"
                     THEN {[method |-> ToUpper(opts[k].method), pattern |-> opts[k].pattern,
                            h |-> opts[k].h] : k \in DOMAIN opts}
                     ELSE {}
    /\ panics' = IF res.panic = "none" THEN panics ELSE panics + 1
    /\ last' = [op |-> "New", opts |-> opts, panic |-> res.panic]

\* New(opts...) with the Handle options for the routes numbered in order.
NewOpt(order) ==
    /\ last = idle /\ nCalls = 0
    /\ Len(order) <= MaxCalls
    /\ LET opts == [k \in DOMAIN order |->
                      [method |-> OrderRoutes[order[k]][1],
                       pattern |-> OrderRoutes[order[k]][2], h |-> order[k]]]
       IN  built(opts, applyOpts(NewMux, opts))

NextOrders ==
    \/ \E S \in SUBSET DOMAIN OrderRoutes :
          /\ Cardinality(S) \in 1..MaxCalls
          /\ \E order \in Orders(S) : NewOpt(order)
    \/ Return

SpecOrders == Init /\ [][NextOrders]_vars

----------------------------------------------------------------------------
(* Concurrent calls of Handler on a mux whose registration is complete.    *)

\* The number of calls of Handler in progress at once.
MaxProcs == 2

Procs == 1..MaxProcs

\* The node that the child indices of at lead to from n.
RECURSIVE NodeAt(_, _)
NodeAt(n, at) == IF at = <<>> THEN n ELSE NodeAt(n.child[Head(at)], Tail(at))

\* The locals of a call of handler: the request it was given (method,
\* path0), the node it is at, the child it is about to try, what is left
\* of the path, the offset, its request r and, when pc is "done", the
\* handler h it returns with r.
notCalled ==
    [pc |-> "none", method |-> "", path0 |-> <<>>, at |-> <<>>, i |-> 1,
     path |-> <<>>, offset |-> 1, r |-> NewRequest("", <<>>), h |-> Hd("none", "")]

\* The call returns res.
done(c, res) == [c EXCEPT !.pc = "done", !.h = res.h, !.r = res.r]

\* handler up to the nodeloop: the redirect and the request for "/" return
\* at once, any other call enters the loop at the root.
entered(m, method, path0, r, clean) ==
    LET c == [notCalled EXCEPT !.method = method, !.path0 = path0, !.r = r]
    IN  IF method # "CONNECT" /\ clean # path0
        THEN done(c, [h |-> [Hd("redirect", "") EXCEPT !.url = clean], r |-> r])
        ELSE IF TrimSlash(path0) = <<>>
        THEN done(c, dispatch(m, m.node, rootHasHandlers(m, m.node), r))
        ELSE [c EXCEPT !.pc = "nodeloop", !.path = TrimSlash(path0)]

\* One call of match in the nodeloop: mt is what the child returned, any
\* the len(...handlers) > 0 test of the branch, isVar whether the node is a
\* variable route.
tried(m, c, child, isVar, any, mt) ==
    IF mt.panic THEN done(c, [h |-> Hd("panic", "unknown type"), r |-> c.r])
    ELSE IF mt.part = <<>>
    THEN IF isVar THEN done(c, [h |-> Hd("notFound", m.notFound), r |-> mt.r])
         ELSE [c EXCEPT !.i = @ + 1, !.path = mt.remain, !.offset = @ + 1, !.r = mt.r]
    ELSE IF mt.remain = <<>> THEN done(c, dispatch(m, child, any, mt.r))
    ELSE [c EXCEPT !.at = Append(@, c.i), !.i = 1, !.path = mt.remain,
                   !.offset = @ + 1, !.r = mt.r]

\* The next step of the call c in the nodeloop, at the node it has reached.
iteration(m, c, node) ==
    IF Len(node.child) = 1 /\ node.child[1].typ # typStatic
    THEN tried(m, c, node.child[1], TRUE, dynHasHandlers(m, node.child[1]),
               match(node.child[1], c.path, c.offset, c.r))
    ELSE IF c.i > Len(node.child)
    THEN done(c, [h |-> Hd("notFound", m.notFound), r |-> c.r])
    ELSE tried(m, c, node.child[c.i], FALSE, staticHasHandlers(m, node.child[c.i]),
               match(node.child[c.i], c.path, c.offset, c.r))

\* stepped with one request variable for all the calls in progress.
steppedShared(calls, p, c) ==
    [q \in DOMAIN calls |->
        IF q = p THEN c
        ELSE IF calls[q].pc = "none" THEN calls[q] ELSE [calls[q] EXCEPT !.r = c.r]]

\* The locals of the calls after call p took a step to c: every call has
\* its own path, offset and request.
stepped(calls, p, c) == [calls EXCEPT ![p] = c]

\* The requests of the concurrent calls.
ConcurrentRequests ==
    {<<"GET", pAB>>, <<"GET", <<"/","b","/","1">>>>, <<"POST", pAB>>, <<"GET", pUnclean>>,
     <<"GET", pRoot>>}

\* Handler(r) is called while other calls may be in progress.
BeginHandler(p, method, path) ==
    /\ last = idle \/ (last.op = "serving" /\ last.calls[p].pc = "none")
    /\ last' = [op |-> "serving",
                calls |-> stepped(IF last = idle THEN [q \in Procs |-> notCalled]
                                  ELSE last.calls,
                                  p, entered(mux, method, path, NewRequest(method, path),
                                             cleanPath(path)))]
    /\ UNCHANGED <<mux, nCalls, registered, panics>>

\* The call p goes once through the body of the nodeloop.
StepHandler(p) ==
    /\ last.op = "serving" /\ last.calls[p].pc = "nodeloop"
    /\ last' = [last EXCEPT !.calls =
                    stepped(@, p, iteration(mux, last.calls[p],
                                            NodeAt(mux.node, last.calls[p].at)))]
    /\ UNCHANGED <<mux, nCalls, registered, panics>>

NextConcurrent ==
    \/ \E reg \in {"GET"} \X {pAB, <<"/","b","/","{","i"," ","i","n","t","}">>, pRoot} :
            HandleOpt(reg[1], reg[2])
    \/ \E p \in Procs, req \in ConcurrentRequests : BeginHandler(p, req[1], req[2])
    \/ \E p \in Procs : StepHandler(p)
    \/ Return

SpecConcurrent == Init /\ [][NextConcurrent]_vars

----------------------------------------------------------------------------
(* The vocabulary of the properties: patterns and paths read as sequences  *)
(* of segments, independently of the route tree.                           *)

\* The segments of a rooted pattern or path: what stands between its
\* slashes.  "/" has none, and a trailing slash adds none.
Elems(p) ==
    IF p = <<"/">> THEN <<>>
    ELSE IF HasTrailingSlash(p) THEN Split(SubSeq(p, 2, Len(p) - 1))
    ELSE Split(Tail(p))

\* A path is clean: rooted, with no empty, "." or ".." segment.
IsClean(p) ==
    /\ p # <<>> /\ p[1] = "/"
    /\ \A i \in 1..Len(Elems(p)) : Elems(p)[i] \notin {<<>>, <<".">>, <<".", ".">>}

\* The descriptors (name and kind) of the segments of a pattern.
Descriptors(P) ==
    [i \in 1..Len(Elems(P)) |->
        [name |-> parseParam(Elems(P)[i]).name, typ |-> parseParam(Elems(P)[i]).typ]]

\* Two patterns name the same position of the tree.
SameNode(P, Q) == Descriptors(P) = Descriptors(Q)

\* The pattern's last segment is path-typed.
WildLast(P) ==
    Descriptors(P) # <<>> /\ Descriptors(P)[Len(Descriptors(P))].typ = typWild

\* s is a nonempty string of decimal digits.
IsDigits(s) == s # <<>> /\ \A i \in 1..Len(s) : s[i] \in Digits

\* The value of a string of decimal digits.
Magnitude(s) == StripLeft([i \in 1..Len(s) |-> DigitVal(s[i])])

\* 1<<63 - 1 = 9223372036854775807
maxInt64 == <<9,2,2,3,3,7,2,0,3,6,8,5,4,7,7,5,8,0,7>>

\* a <= b on numbers held as digits.
AtMost(a, b) == a = b \/ BigLess(a, b)

\* s without its sign.
Unsigned(s) == IF s # <<>> /\ s[1] \in {"+", "-"} THEN Tail(s) ELSE s

\* s is a base-10 numeral, with an optional sign, of a signed 64-bit value.
IsInt64(s) ==
    /\ IsDigits(Unsigned(s))
    /\ \/ AtMost(Magnitude(Unsigned(s)), maxInt64)
       \/ s[1] = "-" /\ Magnitude(Unsigned(s)) = MulAdd(SubSeq(maxInt64, 1, 18), 8)

\* s is an unsigned base-10 numeral of an unsigned 64-bit value.
IsUint64(s) == IsDigits(s) /\ AtMost(Magnitude(s), maxUint64)

\* The int64 and uint64 values of such numerals.
Int64Of(s) ==
    [int64 |-> [neg |-> s[1] = "-" /\ Magnitude(Unsigned(s)) # <<>>,
                n   |-> Magnitude(Unsigned(s))]]

Uint64Of(s) == [uint64 |-> Magnitude(s)]

\* The float64 value of a decimal literal.
Float64Of(s) ==
    [float64 |-> [neg  |-> ParseFloat(s).neg, int |-> ParseFloat(s).int,
                  frac |-> ParseFloat(s).frac]]

\* The path segment seg can stand for the pattern segment with descriptor d.
SegOK(seg, d) ==
    CASE d.typ = typStatic -> seg = d.name
      [] d.typ = typString -> TRUE
      [] d.typ = typInt    -> IsInt64(seg)
      [] d.typ = typUint   -> IsUint64(seg)
      [] d.typ = typFloat  -> ParseFloat(seg).err = "none"
      [] OTHER             -> FALSE

\* What follows the k-th slash of the path.
After(path, k) ==
    LET slashes == {i \in 1..Len(path) : path[i] = "/"}
        pos     == CHOOSE i \in slashes : Cardinality({j \in slashes : j <= i}) = k
    IN  SubSeq(path, pos + 1, Len(path))

\* The path reaches the node of the pattern: segment by segment, a path
\* segment taking the rest.
Reaches(path, P) ==
    LET e == Elems(path)
        d == Descriptors(P)
    IN  IF WildLast(P)
        THEN /\ Len(e) >= Len(d)
             /\ \A i \in 1..(Len(d) - 1) : SegOK(e[i], d[i])
        ELSE /\ Len(e) = Len(d)
             /\ \A i \in 1..Len(d) : SegOK(e[i], d[i])

\* The path instantiates the pattern: it reaches its node, and ends in a
\* slash when the pattern does.
Instantiates(path, P) ==
    /\ Reaches(path, P)
    /\ WildLast(P) \/ HasTrailingSlash(path) = HasTrailingSlash(P)

\* The text and the value captured for segment i of the pattern.
RawOf(path, P, i) ==
    IF Descriptors(P)[i].typ = typWild THEN After(path, i) ELSE Elems(path)[i]

ValueOf(path, P, i) ==
    LET typ == Descriptors(P)[i].typ
        raw == RawOf(path, P, i)
    IN  CASE typ = typInt   -> Int64Of(raw)
          [] typ = typUint  -> Uint64Of(raw)
          [] typ = typFloat -> Float64Of(raw)
          [] OTHER          -> [string |-> raw]

\* The request r carries the parameters the pattern captures from the path:
\* for every name, the value of the last segment of that name.
Captured(r, path, P) ==
    LET d     == Descriptors(P)
        named == {i \in 1..Len(d) : d[i].typ # typStatic /\ d[i].name # <<>>}
    IN  /\ DOMAIN r.params = {d[i].name : i \in named}
        /\ \A i \in named :
              (\A j \in named : d[j].name = d[i].name => j <= i) =>
                 /\ r.params[d[i].name].Name = d[i].name
                 /\ r.params[d[i].name].Type = d[i].typ
                 /\ r.params[d[i].name].Raw = RawOf(path, P, i)
                 /\ r.params[d[i].name].Value = ValueOf(path, P, i)

----------------------------------------------------------------------------
(* The properties.                                                         *)

\* C1: on a tree built by successful registrations, a request with method M
\* whose clean path instantiates a registered pattern P is dispatched to
\* the handler H of Handle(M, P, H), never to a fallback or to another
\* route's handler, and the request passed to H carries the route template
\* of P and the parameters captured from the path.
C1_DispatchesToRegistered ==
    (last.op = "ServeHTTP" /\ panics = 0 /\ IsClean(last.path)) =>
        \A reg \in registered :
            (reg.method = last.method /\ Instantiates(last.path, reg.pattern)) =>
                /\ last.h.kind = "registered"
                /\ last.h.id = reg.h
                /\ last.r.hasRoute
                /\ last.r.route = Tail(reg.pattern)
                /\ Captured(last.r, last.path, reg.pattern)

\* C1 without the route template: the handler and the parameters alone.
C1_HandlerAndParams ==
    (last.op = "ServeHTTP" /\ panics = 0 /\ IsClean(last.path)) =>
        \A reg \in registered :
            (reg.method = last.method /\ Instantiates(last.path, reg.pattern)) =>
                /\ last.h.kind = "registered"
                /\ last.h.id = reg.h
                /\ last.r.hasRoute
                /\ Captured(last.r, last.path, reg.pattern)

\* Two patterns put different descriptors at the same position of the tree
\* (the segments before it agree), and one of the two is a variable.
Conflict(P, Q) ==
    \E k \in 1..Len(Descriptors(P)) :
        /\ k <= Len(Descriptors(Q))
        /\ SubSeq(Descriptors(P), 1, k - 1) = SubSeq(Descriptors(Q), 1, k - 1)
        /\ Descriptors(P)[k] # Descriptors(Q)[k]
        /\ Descriptors(P)[k].typ # typStatic \/ Descriptors(Q)[k].typ # typStatic

\* C2: Handle panics when its pattern and a registered pattern put different
\* segment descriptors at the same tree position and one of the two is a
\* typed variable (two types, two names, or a variable and a static
\* segment), whichever of the two routes was registered first.
C2_ConflictPanics ==
    last.op = "Handle" =>
        \A reg \in registered :
            Conflict(reg.pattern, last.pattern) =>
                last.panic \in {"conflicting type", "conflicting variable name",
                                "wildcards must be the last component"}

\* A static route registered after a variable one at the same position panicked.
C2_Witness ==
    /\ last.op = "Handle" /\ last.pattern = pA /\ last.panic = "conflicting type"
    /\ \E reg \in registered : reg.pattern = pIInt

\* The children of every node below n are all static, or one variable.
RECURSIVE Unmixed(_)
Unmixed(n) ==
    /\ \/ \A i \in 1..Len(n.child) : n.child[i].typ = typStatic
       \/ Len(n.child) = 1
    /\ \A i \in 1..Len(n.child) : Unmixed(n.child[i])

\* C3 is about a tree with a static child and a variable child at the same
\* position.  No such tree is ever built: Handle panics on the second of
\* the two registrations (C2), so the case of C3 never arises.
C3_NoStaticBesideVariable == Unmixed(mux.node)

\* C4: Handle panics with "route already registered" when the method
\* already has a handler at the pattern (root, static or variable
\* terminal); under a method that has none there it returns, and a request
\* is then dispatched to each of the handlers under its own method.
C4_DuplicatePanics ==
    /\ last.op = "Handle" =>
          \A reg \in registered :
              (reg.pattern = last.pattern /\ reg.h # last.h) =>
                  IF \E dup \in registered :
                        /\ dup.method = ToUpper(last.method)
                        /\ SameNode(dup.pattern, last.pattern)
                        /\ dup.h # last.h
                  THEN last.panic = "route already registered"
                  ELSE last.panic = "none"
    /\ (last.op = "ServeHTTP" /\ panics = 0 /\ IsClean(last.path)) =>
          \A reg, other \in registered :
              (/\ reg.pattern = other.pattern /\ reg.method # other.method
               /\ reg.method = last.method
               /\ Instantiates(last.path, reg.pattern)) =>
                  last.h.kind = "registered" /\ last.h.id = reg.h

\* A second handler for the same method of a variable terminal was refused.
C4_Witness ==
    /\ last.op = "Handle" /\ last.pattern = pIInt /\ last.method = "GET"
    /\ last.panic = "route already registered"
    /\ \E reg \in registered : reg.pattern = pIInt /\ reg.method = "GET"

\* The pattern has a path-typed segment that is not its last.
WildInside(P) ==
    \E i \in 1..(Len(Descriptors(P)) - 1) : Descriptors(P)[i].typ = typWild

\* No node of kind path below n has a child.
RECURSIVE WildIsLeaf(_)
WildIsLeaf(n) ==
    /\ n.typ = typWild => n.child = <<>>
    /\ \A i \in 1..Len(n.child) : WildIsLeaf(n.child[i])

C6_PathTakesRemainder ==
    (last.op = "ServeHTTP" /\ panics = 0 /\ IsClean(last.path)) =>
        \A reg \in registered :
            (WildLast(reg.pattern) /\ Instantiates(last.path, reg.pattern)) =>
                LET k    == Len(Descriptors(reg.pattern))
                    name == Descriptors(reg.pattern)[k].name
                IN  /\ name # <<>> =>
                          /\ name \in DOMAIN last.r.params
                          /\ last.r.params[name].Raw = After(last.path, k)
                          /\ last.r.params[name].Value = [string |-> After(last.path, k)]
                          /\ last.r.params[name].Type = typWild
                    /\ reg.method = last.method =>
                          last.h.kind = "registered" /\ last.h.id = reg.h
                    /\ last.h.kind = "notFound" => mux.methodNotAllowed = "nil"

\* A remainder of two segments was captured whole.
C6_Witness ==
    /\ last.op = "ServeHTTP" /\ last.path = <<"/","a","/","b","/","c">>
    /\ \E reg \in registered : reg.pattern = pAPath /\ last.h.id = reg.h
    /\ last.r.params[<<"p">>].Raw = <<"b","/","c">>

\* C7: a segment matches an int parameter exactly when it is a base-10
\* numeral of a signed 64-bit value, and a uint parameter exactly when it is
\* an unsigned base-10 numeral of an unsigned 64-bit value; on a match Value
\* is the number and Raw the text, and any other segment makes the request
\* not found.
C7_IntegerSegments ==
    (last.op = "ServeHTTP" /\ panics = 0 /\ IsClean(last.path)) =>
        \A reg \in registered :
            \A k \in 1..Len(Descriptors(reg.pattern)) :
                LET d   == Descriptors(reg.pattern)
                    e   == Elems(last.path)
                    fit == IF d[k].typ = typInt THEN IsInt64(e[k]) ELSE IsUint64(e[k])
                    val == IF d[k].typ = typInt THEN Int64Of(e[k]) ELSE Uint64Of(e[k])
                IN  (/\ d[k].typ \in {typInt, typUint}
                     /\ k <= Len(e)
                     /\ \A i \in 1..(k - 1) : SegOK(e[i], d[i])) =>
                        IF fit
                        THEN /\ d[k].name # <<>> =>
                                   /\ d[k].name \in DOMAIN last.r.params
                                   /\ last.r.params[d[k].name].Value = val
                                   /\ last.r.params[d[k].name].Raw = e[k]
                             /\ (Len(e) = Len(d) /\ reg.method = last.method) =>
                                   last.h.kind = "registered" /\ last.h.id = reg.h
                        ELSE last.h.kind = "notFound"

\* The least int64 was matched and captured.
C7_Witness ==
    /\ last.op = "ServeHTTP" /\ last.path = <<"/", "-">> \o overInt64Text
    /\ last.h.kind = "registered"
    /\ <<"i">> \in DOMAIN last.r.params
    /\ last.r.params[<<"i">>].Value = [int64 |-> [neg |-> TRUE, n |-> cutoffInt64]]

\* The path reaches a node of the tree built from the registered patterns:
\* the root, or the node of an initial part of a pattern.
Matches(path) ==
    \/ Elems(path) = <<>>
    \/ \E reg \in registered :
          LET d == Descriptors(reg.pattern)
              e == Elems(path)
          IN  \/ Reaches(path, reg.pattern)
              \/ /\ Len(e) < Len(d)
                 /\ \A i \in 1..Len(e) : SegOK(e[i], d[i])

\* The methods registered at the node the path reaches.
MethodsAt(path) == {reg.method : reg \in {x \in registered : Reaches(path, x.pattern)}}

\* C8: when the path matches a node with no handler for the method, and the
\* request is not an OPTIONS request served by an enabled options hook, the
\* method-not-allowed handler is returned if and only if it is configured
\* and the node has a registered method or the options hook is enabled;
\* otherwise the not-found handler is; the same for root, static and
\* variable nodes.
C8_MethodNotAllowedIff ==
    (/\ last.op = "ServeHTTP" /\ panics = 0 /\ IsClean(last.path)
     /\ Matches(last.path)
     /\ last.method \notin MethodsAt(last.path)
     /\ ~(last.method = "OPTIONS" /\ mux.options # "nil")) =>
        IF mux.methodNotAllowed # "nil"
           /\ (MethodsAt(last.path) # {} \/ mux.options # "nil")
        THEN last.h.kind = "methodNotAllowed"
        ELSE last.h.kind = "notFound"

\* The node the path reaches is a static node: one below the root that
\* stands for a literal segment.
ReachesStatic(path) ==
    \E reg \in registered :
        LET d == Descriptors(reg.pattern)
            e == Elems(path)
        IN  /\ e # <<>> /\ Len(e) <= Len(d)
            /\ \A i \in 1..Len(e) : SegOK(e[i], d[i])
            /\ d[Len(e)].typ = typStatic

\* What holds of C8: at the root and at a variable node the rule is as
\* stated, and at a static node the methods of the root stand in for the
\* methods of the node.
C8_RootMethodsAtStaticNodes ==
    (/\ last.op = "ServeHTTP" /\ panics = 0 /\ IsClean(last.path)
     /\ Matches(last.path)
     /\ last.method \notin MethodsAt(last.path)
     /\ ~(last.method = "OPTIONS" /\ mux.options # "nil")) =>
        LET any == IF ReachesStatic(last.path)
                   THEN MethodsAt(<<"/">>) # {}
                   ELSE MethodsAt(last.path) # {}
        IN  IF mux.methodNotAllowed # "nil" /\ (any \/ mux.options # "nil")
            THEN last.h.kind = "methodNotAllowed"
            ELSE last.h.kind = "notFound"

\* C9: with /good/one and /good/two registered on a mux that is otherwise as
\* New leaves it, GET /good is answered by the not-found handler with 404;
\* in general a request whose path ends at a node with no handler for any
\* method is dispatched to not-found.
C9_IntermediateNotFound ==
    /\ (/\ last.op = "ServeHTTP" /\ last.method = "GET"
        /\ last.path = <<"/","g","o","o","d">>
        /\ {reg.pattern : reg \in registered} = {pGoodOne, pGoodTwo}
        /\ panics = 0 /\ mux.options = "default" /\ mux.methodNotAllowed = "default") =>
           last.h.kind = "notFound" /\ last.resp.code = 404
    /\ (/\ last.op = "ServeHTTP" /\ panics = 0 /\ IsClean(last.path)
        /\ Elems(last.path) # <<>>
        /\ Matches(last.path) /\ MethodsAt(last.path) = {}) =>
           last.h.kind = "notFound"

\* The Allow header lists exactly the methods S, joined by commas.
Lists(allow, S) ==
    IF S = {} THEN allow = <<>>
    ELSE /\ Len(allow) = 2 * Cardinality(S) - 1
         /\ {allow[i] : i \in {j \in 1..Len(allow) : j % 2 = 1}} = S
         /\ \A i \in {j \in 1..Len(allow) : j % 2 = 0} : allow[i] = ","

\* C10: for an OPTIONS request whose path matches a node with no OPTIONS
\* handler, while the options hook is enabled, the hook is called with
\* exactly the methods registered at that node; the default hook answers
\* 200 with an Allow header listing exactly those methods, joined by
\* commas in any order, and empty when the node has none.
C10_OptionsVerbs ==
    (/\ last.op = "ServeHTTP" /\ panics = 0 /\ IsClean(last.path)
     /\ last.method = "OPTIONS" /\ mux.options # "nil"
     /\ Matches(last.path) /\ "OPTIONS" \notin MethodsAt(last.path)) =>
        /\ last.h.kind = "options" /\ last.h.which = mux.options
        /\ last.h.verbs = MethodsAt(last.path)
        /\ mux.options = "default" =>
              /\ last.resp.code = 200 /\ last.resp.hasAllow
              /\ Lists(last.resp.Allow, MethodsAt(last.path))

\* The default hook listed the two methods of /a, and not the one of the root.
C10_Witness ==
    /\ last.op = "ServeHTTP" /\ last.method = "OPTIONS" /\ last.path = pA
    /\ {<<reg.method, reg.pattern>> : reg \in registered} = {<<"GET", pA>>, <<"POST", pA>>}
    /\ last.resp.code = 200 /\ last.resp.Allow = <<"POST", ",", "GET">>

----------------------------------------------------------------------------
(* The handler installed with the NotFound option.                         *)

\* The handler never calls WriteHeader.
NeverSetsStatus(calls) == \A i \in 1..Len(calls) : calls[i].op # "WriteHeader"

\* The handler calls WriteHeader before any Write.
SetsStatusFirst(calls) == calls # <<>> /\ calls[1].op = "WriteHeader"

\* C11: when a request is served by the handler installed with NotFound, the
\* final status of the response is 404 if that handler never sets a status,
\* whatever it writes or does not write, and is the code the handler set if
\* it sets one before writing.
C11_NotFoundStatus ==
    (last.op = "ServeHTTP" /\ last.h.kind = "notFound" /\ last.h.which = "wrapped") =>
        /\ NeverSetsStatus(mux.notFoundCalls) => last.resp.code = 404
        /\ SetsStatusFirst(mux.notFoundCalls) =>
                last.resp.code = mux.notFoundCalls[1].code

\* What the wrapper does: the default status is sent only with the first
\* Write, so a handler that makes no call at all leaves the status at 200.
C11_StatusAsCoded ==
    (last.op = "ServeHTTP" /\ last.h.kind = "notFound" /\ last.h.which = "wrapped") =>
        /\ (NeverSetsStatus(mux.notFoundCalls) /\ mux.notFoundCalls # <<>>) =>
                last.resp.code = 404
        /\ mux.notFoundCalls = <<>> => last.resp.code = 200
        /\ SetsStatusFirst(mux.notFoundCalls) =>
                last.resp.code = mux.notFoundCalls[1].code

----------------------------------------------------------------------------
(* Canonicalization of the request path.                                   *)

\* What path cleaning makes of paths that are not clean: "." segments and
\* empty segments go, ".." takes the segment before it with it, the path is
\* rooted, a trailing slash stays.
CleanedExamples ==
    {<<pUnclean, pA>>,
     <<<<"/","a","/","/","b">>, pAB>>,
     <<<<"/","a","/",".","/","b">>, pAB>>,
     <<<<"/","a","/",".",".","/","b">>, <<"/","b">>>>,
     <<<<"/",".",".">>, pRoot>>,
     <<pUnrooted, pA>>,
     <<pEmpty, pRoot>>,
     <<<<"/","a","/","/">>, pASlash>>,
     <<<<"/","a","/","b","/",".",".","/">>, pASlash>>,
     <<<<"/","a","/",".">>, pA>>,
     <<<<"/",".","/">>, pRoot>>}

\* The path starts with a slash.
Rooted(p) == p # <<>> /\ p[1] = "/"

\* C12: a request is answered with a 308 redirect to its cleaned path,
\* with no walk of the tree (nothing is put on the request) and no other
\* handler, exactly when its method is not CONNECT and cleaning changes its
\* path; a CONNECT request is never redirected and is matched on its path
\* as it came: with a rooted path it gets a registered handler only if that
\* very path reaches the node of the handler's pattern, and does get it
\* when the path instantiates the pattern.
C12_RedirectIffUnclean ==
    last.op = "ServeHTTP" =>
        /\ last.h.kind = "redirect" <=> (last.method # "CONNECT" /\ ~IsClean(last.path))
        /\ last.h.kind = "redirect" =>
              /\ last.resp.code = 308
              /\ <<last.path, last.resp.Location>> \in CleanedExamples
              /\ IsClean(last.resp.Location)
              /\ last.r = NewRequest(last.method, last.path)
        /\ (last.method = "CONNECT" /\ last.h.kind = "registered" /\ Rooted(last.path)) =>
              \E reg \in registered :
                  /\ reg.method = "CONNECT" /\ reg.h = last.h.id
                  /\ Reaches(last.path, reg.pattern)
                  /\ Captured(last.r, last.path, reg.pattern)
        /\ (last.method = "CONNECT" /\ panics = 0 /\ Rooted(last.path)) =>
              \A reg \in registered :
                  (/\ reg.method = "CONNECT"
                   /\ Instantiates(last.path, reg.pattern)
                   /\ \A i \in 1..Len(Elems(last.path)) : Elems(last.path)[i] # <<>>) =>
                      last.h.kind = "registered" /\ last.h.id = reg.h

\* A GET request for /a/../b is redirected to /b.
C12_Witness ==
    /\ last.op = "ServeHTTP" /\ last.method = "GET"
    /\ last.path = <<"/","a","/",".",".","/","b">>
    /\ last.h.kind = "redirect" /\ last.resp.code = 308
    /\ last.resp.Location = <<"/","b">>

\* A CONNECT request for /a/./b is not redirected: its "." segment is
\* captured by the string variable of /a/{s string}/b.
C12_ConnectWitness ==
    /\ last.op = "ServeHTTP" /\ last.method = "CONNECT"
    /\ last.path = <<"/","a","/",".","/","b">>
    /\ last.h.kind = "registered"
    /\ last.r.params[<<"s">>].Raw = <<".">>

----------------------------------------------------------------------------
(* Patterns that Handle rejects.                                           *)

\* C13: a Handle call with a pattern that is empty, not rooted or unclean
\* (a ".", a ".." or an empty segment) panics with the unclean-route error
\* and changes neither the tree nor the handlers of the mux.
C13_UncleanRejected ==
    [][(last = idle /\ last'.op = "Handle" /\ ~IsClean(last'.pattern)) =>
          /\ last'.panic = "route is unclean"
          /\ mux' = mux
          /\ registered' = registered]_vars

\* Handle("GET", "/a/../b", h) panicked on a mux that has a route.
C13_Witness ==
    /\ last.op = "Handle" /\ last.pattern = pDotDot
    /\ last.panic = "route is unclean"
    /\ registered # {} /\ mux.node.child # <<>>

\* The type keywords of the pattern language.
TypeKeywords == {typInt, typUint, typFloat, typString, typWild}

\* The segment is a pair of braces around some text.
Brace(seg) == Len(seg) > 2 /\ seg[1] = "{" /\ seg[Len(seg)] = "}"

\* The text between the braces, and its type token: what follows the first
\* space, or the whole text when it has no space.
Inner(seg) == SubSeq(seg, 2, Len(seg) - 1)

TypeToken(seg) ==
    LET spaces == {i \in 1..Len(Inner(seg)) : Inner(seg)[i] = " "}
    IN  IF spaces = {} THEN Inner(seg)
        ELSE SubSeq(Inner(seg), (CHOOSE i \in spaces : \A j \in spaces : i <= j) + 1,
                    Len(Inner(seg)))

\* The pattern is one segment, a single token in braces.
SingleToken(P) ==
    /\ IsClean(P) /\ Len(Elems(P)) = 1 /\ Brace(Elems(P)[1])
    /\ TypeToken(Elems(P)[1]) = Inner(Elems(P)[1])

\* C14 as stated: on a mux without routes, Handle of a pattern whose one
\* segment is a single token in braces returns, and the node it adds is an
\* anonymous capture of the type the token names when the token is a type
\* keyword, and a string capture named by the token when it is not.
C14_SingleToken ==
    (last.op = "Handle" /\ nCalls = 1 /\ SingleToken(last.pattern)) =>
        /\ last.panic = "none"
        /\ Len(mux.node.child) = 1
        /\ IF Inner(Elems(last.pattern)[1]) \in TypeKeywords
           THEN /\ mux.node.child[1].name = <<>>
                /\ mux.node.child[1].typ = Inner(Elems(last.pattern)[1])
           ELSE /\ mux.node.child[1].name = Inner(Elems(last.pattern)[1])
                /\ mux.node.child[1].typ = typString

\* C14 amended: on a mux without routes, Handle of a pattern whose one
\* segment is a single token in braces adds an anonymous capture of the type
\* the token names when the token is a type keyword, and panics with the
\* invalid-type error, adding no node, when it is not.
C14_SingleTokenIsAType ==
    (last.op = "Handle" /\ nCalls = 1 /\ SingleToken(last.pattern)) =>
        IF Inner(Elems(last.pattern)[1]) \in TypeKeywords
        THEN /\ last.panic = "none"
             /\ Len(mux.node.child) = 1
             /\ mux.node.child[1].name = <<>>
             /\ mux.node.child[1].typ = Inner(Elems(last.pattern)[1])
        ELSE /\ last.panic = "invalid type"
             /\ mux.node.child = <<>>

\* Handle("GET", "/{s}", h) panicked on the type, and added nothing.
C14_Witness ==
    /\ last.op = "Handle" /\ nCalls = 1 /\ last.pattern = pSTok
    /\ last.panic = "invalid type" /\ mux.node.child = <<>>

\* Handle("GET", "/{path}", h) added an anonymous wildcard.
C14_KeywordWitness ==
    /\ last.op = "Handle" /\ nCalls = 1 /\ last.pattern = pPathTok
    /\ last.panic = "none"
    /\ mux.node.child[1].name = <<>> /\ mux.node.child[1].typ = typWild

\* The segment is a variable whose type token is no type keyword.
BadType(seg) == Brace(seg) /\ TypeToken(seg) \notin TypeKeywords

HasBadType(P) == Rooted(P) /\ \E i \in 1..Len(Elems(P)) : BadType(Elems(P)[i])

\* The position of the first such segment.
FirstBad(P) ==
    CHOOSE i \in 1..Len(Elems(P)) :
        BadType(Elems(P)[i]) /\ \A j \in 1..(i - 1) : ~BadType(Elems(P)[j])

\* Something before segment n of P makes Handle panic before it gets there:
\* a wildcard, or a segment that conflicts with the registered pattern Q.
PanicsBefore(P, Q, n) ==
    \/ \E k \in 1..(n - 1) : Descriptors(P)[k].typ = typWild
    \/ \E k \in 1..(n - 1) :
          /\ k <= Len(Descriptors(Q))
          /\ SubSeq(Descriptors(P), 1, k - 1) = SubSeq(Descriptors(Q), 1, k - 1)
          /\ Descriptors(P)[k] # Descriptors(Q)[k]
          /\ Descriptors(P)[k].typ # typStatic \/ Descriptors(Q)[k].typ # typStatic

----------------------------------------------------------------------------
(* The parameters of a dispatched request and its normalized path.         *)

\* The capture segments of the pattern that are named N.
NamedSegs(P, N) ==
    {i \in 1..Len(Descriptors(P)) :
        Descriptors(P)[i].typ # typStatic /\ Descriptors(P)[i].name = N /\ N # <<>>}

\* The pattern has a path-typed segment without a name.
AnonymousWild(P) ==
    \E i \in 1..Len(Descriptors(P)) :
        Descriptors(P)[i].typ = typWild /\ Descriptors(P)[i].name = <<>>

\* The pattern P rendered for the path, from segment i on: a static segment
\* as it is, a capture named N as v, any other capture as the text of the
\* path it stands for; a trailing slash of the pattern is kept.
RECURSIVE Rendered(_, _, _, _, _)
Rendered(P, path, N, v, i) ==
    IF i > Len(Descriptors(P))
    THEN IF HasTrailingSlash(P) /\ P # pRoot THEN <<"/">> ELSE <<>>
    ELSE <<"/">>
         \o (IF Descriptors(P)[i].typ = typStatic THEN Descriptors(P)[i].name
             ELSE IF i \in NamedSegs(P, N) THEN v
             ELSE RawOf(path, P, i))
         \o Rendered(P, path, N, v, i + 1)

\* C16: for a request dispatched to the handler of a route with a capture
\* named N, Path(WithParam(r, N, v)) returns, without error, the route
\* template rendered with v in the place of N and every other segment as in
\* the request.
C16_PathAfterWithParam ==
    (last.op = "Path" /\ last.after = "WithParam" /\ last.h.kind = "registered") =>
        \A reg \in registered :
            (reg.h = last.h.id /\ NamedSegs(reg.pattern, last.name) # {}) =>
                last.out = [s |-> Rendered(reg.pattern, last.path, last.name, last.val, 1),
                            err |-> "nil", panic |-> FALSE]

\* What Path does with the request WithParam returned: C16 holds for every
\* route but those with a path-typed segment that has no name.
C16_RenderedUnlessAnonymousWild ==
    (last.op = "Path" /\ last.after = "WithParam" /\ last.h.kind = "registered") =>
        \A reg \in registered :
            (/\ reg.h = last.h.id /\ NamedSegs(reg.pattern, last.name) # {}
             /\ ~AnonymousWild(reg.pattern)) =>
                last.out = [s |-> Rendered(reg.pattern, last.path, last.name, last.val, 1),
                            err |-> "nil", panic |-> FALSE]

\* C17: for a request dispatched to a registered handler, Path(r) returns
\* no error and the path of the request, whatever the registered pattern.
C17_PathIsRequestPath ==
    (last.op = "Path" /\ last.after = "ServeHTTP" /\ last.h.kind = "registered") =>
        last.out = [s |-> last.path, err |-> "nil", panic |-> FALSE]

\* No two capture segments of the pattern have the same name.
DistinctNames(P) ==
    \A i, j \in 1..Len(Descriptors(P)) :
        (/\ i # j /\ Descriptors(P)[i].typ # typStatic
         /\ Descriptors(P)[i].name # <<>>) => Descriptors(P)[i].name # Descriptors(P)[j].name

\* What Path does with a dispatched request: C17 holds when the pattern is
\* not the root, has no anonymous path-typed segment and no repeated name,
\* and the request ends in a slash exactly when the pattern does.
C17_PathAsCoded ==
    (last.op = "Path" /\ last.after = "ServeHTTP" /\ last.h.kind = "registered") =>
        \A reg \in registered :
            (/\ reg.h = last.h.id /\ reg.pattern # pRoot
             /\ ~AnonymousWild(reg.pattern) /\ DistinctNames(reg.pattern)
             /\ Instantiates(last.path, reg.pattern)) =>
                last.out = [s |-> last.path, err |-> "nil", panic |-> FALSE]

\* C18: WithParam(r, name, val) leaves what the request r shows as it was:
\* Param(r, n) for every name n and Path(r) return after the call what they
\* returned before it.  When name is no parameter of r the request returned
\* is r itself; otherwise the request returned shows name with Value = val,
\* Raw = val and Type = string, and every other parameter, the route and the
\* rest of the request as r has them.
C18_WithParamFrame ==
    [][(last.op = "ServeHTTP" /\ last'.op = "WithParam") =>
          /\ \A n \in ParamNames : Param(last'.r, n) = Param(last.r, n)
          /\ Path(last'.r) = Path(last.r)
          /\ last'.r = last.r
          /\ IF last'.name \notin DOMAIN last.r.params
             THEN last'.out = last.r
             ELSE /\ Param(last'.out, last'.name).Value = [string |-> last'.val]
                  /\ Param(last'.out, last'.name).Raw = last'.val
                  /\ Param(last'.out, last'.name).Type = typString
                  /\ \A n \in ParamNames \ {last'.name} :
                        Param(last'.out, n) = Param(last.r, n)
                  /\ DOMAIN last'.out.params = DOMAIN last.r.params
                  /\ last'.out.hasRoute = last.r.hasRoute
                  /\ last'.out.route = last.r.route
                  /\ last'.out.path = last.r.path
                  /\ last'.out.method = last.r.method]_vars

\* WithParam(r, "i", "me") was called for GET /1/b on the route /{i int}/b:
\* the request returned shows i as the string me, r shows it as the int 1.
C18_Witness ==
    /\ last.op = "WithParam" /\ last.name = <<"i">> /\ last.path = <<"/","1","/","b">>
    /\ last.h.kind = "registered"
    /\ Param(last.out, <<"i">>).Raw = <<"m","e">>
    /\ Param(last.r, <<"i">>).Raw = <<"1">>
    /\ Param(last.r, <<"i">>).Type = typInt

\* C19: Path never panics; for a request without a route template in its
\* context it returns the no-route error, and for a request dispatched to a
\* registered handler it does not return the no-route error.
C19_PathNeverAborts ==
    last.op = "Path" =>
        /\ ~last.out.panic
        /\ ~last.r.hasRoute => last.out.err = "errNoRoute"
        /\ last.h.kind = "registered" => last.out.err # "errNoRoute"

\* What Path does: it panics exactly when the context has no route, and it
\* returns the no-route error exactly for the requests dispatched on the
\* root route.
C19_PathAsCoded ==
    last.op = "Path" =>
        /\ last.out.panic <=> ~last.r.hasRoute
        /\ last.out.err = "errNoRoute" <=> (last.r.hasRoute /\ last.path = pRoot)
        /\ last.out.err # "errNoParam"

\* C20 as stated: for a request dispatched to the handler of a route, and
\* every capture segment of the route that has a name, Param(r, name) has
\* that name, the kind of the segment, the text the segment matched and its
\* coerced value; Param for a name that no capture of the route has returns
\* a nil Value, and nothing is stored for the captures without a name.
C20_ParamOfEverySegment ==
    (last.op = "Param" /\ last.h.kind = "registered") =>
        \A reg \in registered :
            reg.h = last.h.id =>
                /\ \A i \in NamedSegs(reg.pattern, last.name) :
                      /\ last.out.Name = last.name
                      /\ last.out.Type = Descriptors(reg.pattern)[i].typ
                      /\ last.out.Raw = RawOf(last.path, reg.pattern, i)
                      /\ last.out.Value = ValueOf(last.path, reg.pattern, i)
                /\ NamedSegs(reg.pattern, last.name) = {} => last.out.Value = nilValue
                /\ DOMAIN last.r.params =
                      {n \in ParamNames : NamedSegs(reg.pattern, n) # {}}

\* C20 amended: the same for every named capture segment whose name no
\* later capture segment of the route has; of the segments of one name
\* Param returns the last.
C20_ParamOfLastSegment ==
    (last.op = "Param" /\ last.h.kind = "registered") =>
        \A reg \in registered :
            reg.h = last.h.id =>
                /\ \A i \in NamedSegs(reg.pattern, last.name) :
                      (\A j \in NamedSegs(reg.pattern, last.name) : j <= i) =>
                          /\ last.out.Name = last.name
                          /\ last.out.Type = Descriptors(reg.pattern)[i].typ
                          /\ last.out.Raw = RawOf(last.path, reg.pattern, i)
                          /\ last.out.Value = ValueOf(last.path, reg.pattern, i)
                /\ NamedSegs(reg.pattern, last.name) = {} => last.out.Value = nilValue
                /\ DOMAIN last.r.params =
                      {n \in ParamNames : NamedSegs(reg.pattern, n) # {}}

\* Param(r, "p") for GET /a/x/y on the route /a/{p path} returned the rest
\* of the path.
C20_Witness ==
    /\ last.op = "Param" /\ last.h.kind = "registered" /\ last.name = <<"p">>
    /\ last.path = <<"/","a","/","x","/","y">>
    /\ last.out.Type = typWild /\ last.out.Raw = <<"x","/","y">>
    /\ last.out.Value = [string |-> <<"x","/","y">>]

\* The children of every node below n are static with pairwise different
\* names, or a single child that is not static.
RECURSIVE Shaped(_)
Shaped(n) ==
    /\ \/ /\ \A i \in 1..Len(n.child) : n.child[i].typ = typStatic
          /\ \A i, j \in 1..Len(n.child) : n.child[i].name = n.child[j].name => i = j
       \/ Len(n.child) = 1 /\ n.child[1].typ # typStatic
    /\ \A i \in 1..Len(n.child) : Shaped(n.child[i])

\* C21: after any sequence of registration calls, those that panicked
\* included, the children of every node of the tree are all static with
\* pairwise different names, or exactly one child that is not static; no
\* node has two variable children or a variable child beside a static one.
C21_TreeShape == Shaped(mux.node)

\* A registration panicked after it had added a node, and the root has two
\* static children.
C21_Witness ==
    /\ panics = 1 /\ Len(mux.node.child) = 2
    /\ \E i \in 1..2 : mux.node.child[i].handlers = <<>> /\ mux.node.child[i].child = <<>>

\* The children of n that match the start of the path.
Candidates(n, path) ==
    {i \in 1..Len(n.child) :
        match(n.child[i], path, 1, NewRequest("GET", <<>>)).part # <<>>}

\* At every node below n, at most one child matches any of the paths.
RECURSIVE OneCandidate(_, _)
OneCandidate(n, paths) ==
    /\ \A path \in paths : Cardinality(Candidates(n, path)) <= 1
    /\ \A i \in 1..Len(n.child) : OneCandidate(n.child[i], paths)

\* What is left of the path after each of its slashes.
Rests(path) ==
    {SubSeq(path, i + 1, Len(path)) : i \in {j \in 1..Len(path) : path[j] = "/"}} \ {<<>>}

\* C22: on a tree built by successful registrations, at every node at most
\* one child matches what is left of a request path, and the path reaches
\* the nodes of no two registered routes that are not the same node.
C22_OneCandidate ==
    (last.op = "ServeHTTP" /\ panics = 0 /\ IsClean(last.path)) =>
        /\ OneCandidate(mux.node, Rests(last.path))
        /\ \A P, Q \in registered :
              (Reaches(last.path, P.pattern) /\ Reaches(last.path, Q.pattern)) =>
                  SameNode(P.pattern, Q.pattern)

\* A request was dispatched on a tree of two routes that end at different
\* children of the root.
C22_Witness ==
    /\ panics = 0 /\ Len(mux.node.child) = 2
    /\ last.op = "ServeHTTP" /\ last.h.kind = "registered"
    /\ \E P, Q \in registered : ~SameNode(P.pattern, Q.pattern)

\* The tree new holds every node of the tree old with its name, its kind and
\* its handlers; it may hold more handlers and more nodes.
RECURSIVE Extends(_, _)
Extends(old, new) ==
    /\ new.name = old.name /\ new.typ = old.typ
    /\ DOMAIN old.handlers \subseteq DOMAIN new.handlers
    /\ \A m \in DOMAIN old.handlers : new.handlers[m] = old.handlers[m]
    /\ Len(new.child) >= Len(old.child)
    /\ \A i \in 1..Len(old.child) : Extends(old.child[i], new.child[i])

\* The requests the mux m gives to a registered handler are given to the
\* same handler, with the same parameters, by the mux n.
SameDispatch(m, n, reqs) ==
    \A req \in reqs :
        LET before == handler(m, NewRequest(req[1], req[2]))
            after  == handler(n, NewRequest(req[1], req[2]))
        IN  before.h.kind = "registered" =>
                after.h = before.h /\ after.r.params = before.r.params

\* C23: a registration that returns changes the name and the kind of no
\* node the tree had and removes or replaces no entry of its handler maps;
\* every request that was dispatched to a registered handler before the call
\* is dispatched to that handler after it.
C23_RegistrationFrame ==
    [][(last = idle /\ last'.op = "Handle" /\ last'.panic = "none") =>
          /\ Extends(mux.node, mux'.node)
          /\ SameDispatch(mux, mux', TreeRequests)]_vars

\* A second method was registered on the node of a registered route.
C23_Witness ==
    /\ last.op = "Handle" /\ last.panic = "none" /\ panics = 0
    /\ \E P, Q \in registered :
          P.h = 1 /\ Q.h = 2 /\ P.method # Q.method /\ SameNode(P.pattern, Q.pattern)

\* C24: the route template on a request dispatched to the handler that
\* Handle(M, P, H) registered is P without its leading slash, also when
\* another method was registered later on the same terminal node.
C24_RouteOfOwnPattern ==
    (last.op = "ServeHTTP" /\ last.h.kind = "registered" /\ panics = 0) =>
        \A reg \in registered :
            reg.h = last.h.id => last.r.hasRoute /\ last.r.route = Tail(reg.pattern)

\* As C24, for a terminal node whose registrations all spell the pattern
\* alike.
C24_RouteOfLastPattern ==
    (last.op = "ServeHTTP" /\ last.h.kind = "registered" /\ panics = 0) =>
        \A reg \in registered :
            reg.h = last.h.id =>
                /\ last.r.hasRoute
                /\ \E later \in registered :
                      /\ SameNode(later.pattern, reg.pattern)
                      /\ later.h >= reg.h
                      /\ \A x \in registered : SameNode(x.pattern, reg.pattern) => x.h <= later.h
                      /\ last.r.route = Tail(later.pattern)

\* C25: once registration is complete, the steps of concurrent calls of
\* Handler, interleaved in any order, leave the tree and the configuration
\* of the mux unchanged, and every call returns the handler and the request
\* (route and captured parameters) that the same call returns when it runs
\* alone; no parameter captured for one request shows on another.
C25_ConcurrentCalls ==
    [][last'.op = "serving" =>
          /\ mux' = mux
          /\ \A p \in Procs :
                last'.calls[p].pc = "done" =>
                    LET alone == handler(mux', NewRequest(last'.calls[p].method,
                                                         last'.calls[p].path0))
                    IN  last'.calls[p].h = alone.h /\ last'.calls[p].r = alone.r]_vars

\* One call returned a registered handler with a captured parameter while
\* another call, for a path that captures none, was inside the loop.
C25_Witness ==
    /\ last.op = "serving"
    /\ \E p, q \in Procs :
          /\ last.calls[p].pc = "done" /\ last.calls[p].h.kind = "registered"
          /\ DOMAIN last.calls[p].r.params # {}
          /\ last.calls[q].pc = "nodeloop" /\ last.calls[q].at # <<>>
          /\ DOMAIN last.calls[q].r.params = {}

\* The positions of the sink at which it was given the status code.
StatusSent(sink, code) == {k \in 1..Len(sink) : sink[k] = WriteHeaderCall(code)}

\* C26: whatever calls of Write and WriteHeader the handler wrapped by
\* NotFound makes, when its first call is a Write the underlying writer is
\* given the default status 404 once, before anything else, and then the
\* calls of the handler; when its first call is WriteHeader(c) the
\* underlying writer is given the calls of the handler alone and never the
\* default status.  The first call decides the status of the response.
C26_FirstCallDecides ==
    (last.op = "ServeHTTP" /\ last.h.kind = "notFound" /\ last.h.which = "wrapped"
        /\ mux.notFoundCalls # <<>>) =>
        LET calls == mux.notFoundCalls
            sink  == last.resp.sink
        IN  /\ Head(calls).op = "Write" =>
                  /\ StatusSent(sink, StatusNotFound) = {1}
                  /\ sink = <<WriteHeaderCall(StatusNotFound)>> \o calls
                  /\ last.resp.code = StatusNotFound
            /\ Head(calls).op = "WriteHeader" =>
                  /\ StatusSent(sink, StatusNotFound) = {}
                  /\ sink = calls
                  /\ last.resp.code = Head(calls).code

\* The handler wrote, set a status and wrote again: the underlying writer
\* was given four calls.
C26_Witness ==
    /\ last.op = "ServeHTTP" /\ last.h.kind = "notFound" /\ last.h.which = "wrapped"
    /\ mux.notFoundCalls = <<WriteCall("body"), WriteHeaderCall(testCode), WriteCall("body")>>
    /\ Len(last.resp.sink) = 4

\* Two requests carry the same parameters: the same names, each with the
\* same value, raw text, name and kind.
SameParams(a, b) ==
    /\ DOMAIN a.params = DOMAIN b.params
    /\ \A n \in DOMAIN a.params :
          /\ a.params[n].Value = b.params[n].Value
          /\ a.params[n].Raw = b.params[n].Raw
          /\ a.params[n].Name = b.params[n].Name
          /\ a.params[n].Type = b.params[n].Type

\* C27: registration does not depend on the order of the calls.  For the
\* set of (method, pattern, handler) triples New was given, New panics in
\* every order or returns in every order, and when it returns every request
\* is dispatched to the same handler with the same parameters whatever the
\* order was.
C27_OrderIndependent ==
    last.op = "New" =>
        \A o \in Orders({last.opts[k] : k \in DOMAIN last.opts}) :
            /\ (applyOpts(NewMux, o).panic = "none") <=> (last.panic = "none")
            /\ last.panic = "none" =>
                  \A req \in TreeRequests :
                      LET here  == handler(mux, NewRequest(req[1], req[2]))
                          there == handler(applyOpts(NewMux, o).mux,
                                           NewRequest(req[1], req[2]))
                      IN  there.h = here.h /\ SameParams(there.r, here.r)

\* New returned for /a/b registered before /a.
C27_Witness ==
    /\ last.op = "New" /\ last.panic = "none" /\ Len(last.opts) = 2
    /\ last.opts[1].pattern = pAB /\ last.opts[2].pattern = pA
    /\ last.opts[1].method = "GET" /\ last.opts[2].method = "GET"

\* The node n and the nodes below it have no handler and no route template.
RECURSIVE Bare(_)
Bare(n) ==
    /\ n.handlers = <<>> /\ n.route = <<>>
    /\ \A i \in 1..Len(n.child) : Bare(n.child[i])

\* The tree new holds every node of the tree old unchanged (name, kind,
\* handlers, route template), and beside them only bare nodes.
RECURSIVE Kept(_, _)
Kept(old, new) ==
    /\ new.name = old.name /\ new.typ = old.typ
    /\ new.handlers = old.handlers /\ new.route = old.route
    /\ Len(new.child) >= Len(old.child)
    /\ \A i \in 1..Len(new.child) :
          IF i <= Len(old.child) THEN Kept(old.child[i], new.child[i])
          ELSE Bare(new.child[i])

RECURSIVE EraseRoutes(_)
EraseRoutes(n) ==
    [n EXCEPT !.route = <<>>,
              !.child = [i \in 1..Len(n.child) |-> EraseRoutes(n.child[i])]]

\* The pattern or path with a slash put at its end, or taken from it.
OtherSlash(p) == IF HasTrailingSlash(p) THEN SubSeq(p, 1, Len(p) - 1) ELSE p \o <<"/">>

\* C29: a trailing slash selects no other node.  On any tree, a request for
\* a clean path p other than "/" and the request for p with a slash at its
\* end are given the same handler and the route template of the same node,
\* and Handle with a pattern P and Handle with P and a slash at its end
\* register on the same node: they panic alike and leave trees that differ
\* in route templates only.
C29_TrailingSlash ==
    [][/\ (last = idle /\ last'.op = "ServeHTTP" /\ IsClean(last'.path)
              /\ last'.path # pRoot) =>
             LET other == handler(mux, NewRequest(last'.method, OtherSlash(last'.path)))
             IN  /\ other.h = last'.h
                 /\ other.r.hasRoute = last'.r.hasRoute
                 /\ other.r.route = last'.r.route
                 /\ DOMAIN other.r.params = DOMAIN last'.r.params
       /\ (last = idle /\ last'.op = "Handle" /\ last'.pattern # pRoot) =>
             LET other == Handle(mux, last'.method, OtherSlash(last'.pattern), last'.h)
             IN  /\ other.panic = last'.panic
                 /\ EraseRoutes(other.mux.node) = EraseRoutes(mux'.node)]_vars

\* GET /a was given the handler registered with the pattern /a/.
C29_Witness ==
    /\ last.op = "ServeHTTP" /\ last.path = pA /\ last.h.kind = "registered"
    /\ \E reg \in registered : reg.h = last.h.id /\ reg.pattern = pASlash

\* C30: cleaning a path twice gives what cleaning it once gives, so the
\* canonicalization does not loop: the target of a canonicalization
\* redirect is a clean path that cleanPath leaves as it is, and the request
\* for the target with the same method is matched against the tree, not
\* redirected again.
C30_RedirectTargetClean ==
    (last.op = "ServeHTTP" /\ last.h.kind = "redirect") =>
        /\ last.method # "CONNECT"
        /\ last.h.url = cleanPath(last.path)
        /\ IsClean(last.h.url)
        /\ cleanPath(last.h.url) = last.h.url
        /\ handler(mux, NewRequest(last.method, last.h.url)) =
              walk(mux, NewRequest(last.method, last.h.url), TrimSlash(last.h.url))
        /\ handler(mux, NewRequest(last.method, last.h.url)).h.kind # "redirect"

\* GET /a/b/../ was redirected to /a/, where the handler of /a serves it.
C30_Witness ==
    /\ last.op = "ServeHTTP" /\ last.h.kind = "redirect"
    /\ last.path = <<"/","a","/","b","/",".",".","/">>
    /\ last.h.url = pASlash
    /\ handler(mux, NewRequest(last.method, last.h.url)).h.kind = "registered"

====
